---- MODULE Spec2Model ----
(***************************************************************************)
(* A model of pytsdl: the document materializer of pytsdl/parser.py        *)
(* (_DocCreatorVisitor) over the document model of pytsdl/tsdl.py.         *)
(*                                                                         *)
(* The visitor is modelled at the granularity of its visit_* handlers.     *)
(* _visit_scope pushes an object and a scope store, lets each entry of the *)
(* node accept the visitor, and pops: the push is the ...Enter action of a *)
(* block, each entry is one action, and the pop with the checks that       *)
(* follow it in the handler is the ...Exit action.  The syntax tree the     *)
(* visitor walks is drawn entry by entry from small sets.                  *)
(***************************************************************************)
EXTENDS Integers, Sequences, FiniteSets, TLC

VARIABLES
    pc,            \* position of the visitor: "init", "top", "block", "done", "raised";
                   \* "call" when the caller of parse is about to call it (SpecAgain);
                   \* in a struct's body "entry" (at an entry) and "visited" (past it);
                   \* "used" once the consumer has applied its operation
    exc,           \* the exception that left the visitor, NoExc if none
    objs,          \* _DocCreatorVisitor._objs
    scope_stores,  \* _DocCreatorVisitor._scope_stores
    doc,           \* _DocCreatorVisitor._doc
    made,          \* identities of the Event objects constructed so far; in SpecAgain
                   \* the calls of parse made so far, each with its source and outcome
    node,          \* the syntax node of the entry being visited (SpecEntry, SpecVariant)
    heap           \* the objects that are shared by reference (SpecVariant)

vars == <<pc, exc, objs, scope_stores, doc, made, node, heap>>

(***************************************************************************)
(* Bounds of the model.                                                    *)
(***************************************************************************)
MaxEvents == 2      \* event blocks of the source

(***************************************************************************)
(* Python values: None, int and str, tagged so that values of different    *)
(* types compare unequal instead of being incomparable.                    *)
(***************************************************************************)
PyNone == [t |-> "None", n |-> 0, s |-> ""]
PyInt(i) == [t |-> "int", n |-> i, s |-> ""]
PyStr(x) == [t |-> "str", n |-> 0, s |-> x]
PyBool(b) == [t |-> "bool", n |-> IF b THEN 1 ELSE 0, s |-> ""]

NoExc == [type |-> "", msg |-> ""]
Ok(o) == [exc |-> NoExc, obj |-> o]
Raise(type, msg) == [exc |-> [type |-> type, msg |-> msg], obj |-> PyNone]
ParseError(msg) == Raise("ParseError", msg)

(***************************************************************************)
(* Python dict / collections.OrderedDict: a sequence of key-value pairs in *)
(* insertion order; assigning to a present key replaces its value in place.*)
(***************************************************************************)
DictKeys(d) == {d[i].k : i \in DOMAIN d}
DictHas(d, key) == \E i \in DOMAIN d : d[i].k = key
DictGet(d, key) == d[CHOOSE i \in DOMAIN d : d[i].k = key].v
DictSet(d, key, val) ==
    IF DictHas(d, key)
    THEN [i \in DOMAIN d |-> IF d[i].k = key THEN [k |-> key, v |-> val] ELSE d[i]]
    ELSE Append(d, [k |-> key, v |-> val])

(***************************************************************************)
(* Syntax nodes an assignment's value can be (node.value.expr).            *)
(* ConstNumber and LiteralString are _SingleValue (they have .value and no *)
(* __getitem__); PostfixExpr is a _List (it has __getitem__ and no .value).*)
(***************************************************************************)
ConstNumber(i) == [node |-> "ConstNumber", value |-> PyInt(i), elems |-> <<>>]
LiteralString(x) == [node |-> "LiteralString", value |-> PyStr(x), elems |-> <<>>]
Identifier(x) == [node |-> "Identifier", value |-> PyStr(x)]
Dot == [node |-> "Dot", value |-> PyNone]
Arrow == [node |-> "Arrow", value |-> PyNone]
PostfixExpr(es) == [node |-> "PostfixExpr", value |-> PyNone, elems |-> es]

HasValue(e) == e.node \in {"ConstNumber", "LiteralString"}
Subscriptable(e) == e.node = "PostfixExpr"
NoValue == Raise("AttributeError", "'PostfixExpr' object has no attribute 'value'")
NoGetItem == Raise("TypeError", "object is not subscriptable")

(***************************************************************************)
(* The document model (tsdl.py): the objects as their constructors leave   *)
(* them.                                                                   *)
(***************************************************************************)
Doc == [cls |-> "Doc", trace |-> PyNone, env |-> PyNone, clocks |-> <<>>, streams |-> <<>>]

Trace == [cls |-> "Trace", major |-> PyNone, minor |-> PyNone, uuid |-> PyNone,
          byte_order |-> PyNone, packet_header |-> PyNone]

Env == [cls |-> "Env", items |-> <<>>]

Clock == [cls |-> "Clock", name |-> PyNone, uuid |-> PyNone, description |-> PyNone,
          freq |-> PyNone, precision |-> PyNone, offset_s |-> PyNone,
          offset |-> PyNone, absolute |-> PyBool(FALSE)]

Stream == [cls |-> "Stream", id |-> PyInt(0), packet_context |-> PyNone,
           event_header |-> PyNone, event_context |-> PyNone, events |-> <<>>]

\* pytsdl.tsdl.Event() followed by event.stream_id = None (visit_Event); oid is the
\* identity of the object
Event(oid) == [cls |-> "Event", oid |-> oid, id |-> PyNone, name |-> PyNone,
               loglevel |-> PyNone, context |-> PyNone, fields |-> PyNone,
               stream_id |-> PyNone]

ByteOrderNATIVE == [t |-> "ByteOrder", n |-> 0, s |-> "NATIVE"]
ByteOrderLE == [t |-> "ByteOrder", n |-> 1, s |-> "LE"]
ByteOrderBE == [t |-> "ByteOrder", n |-> 2, s |-> "BE"]

_byte_order_map ==
    << [k |-> "le", v |-> ByteOrderLE], [k |-> "be", v |-> ByteOrderBE],
       [k |-> "network", v |-> ByteOrderBE], [k |-> "native", v |-> ByteOrderNATIVE] >>

_byte_order_from_str(s) ==
    IF ~DictHas(_byte_order_map, s)
    THEN ParseError("wrong byte order")
    ELSE Ok(DictGet(_byte_order_map, s))

\* str.lower() on the ASCII letters
LowerChar(c) ==
    LET up == "ABCDEFGHIJKLMNOPQRSTUVWXYZ"
        lo == "abcdefghijklmnopqrstuvwxyz"
    IN  IF \E i \in 1..26 : SubSeq(up, i, i) = c
        THEN LET i == CHOOSE i \in 1..26 : SubSeq(up, i, i) = c IN SubSeq(lo, i, i)
        ELSE c

RECURSIVE Lower(_)
Lower(s) == IF s = "" THEN "" ELSE LowerChar(SubSeq(s, 1, 1)) \o Lower(Tail(s))

\* re.match(p, s) for a literal p: p matches at the start of s
StartsWith(s, p) == Len(s) >= Len(p) /\ SubSeq(s, 1, Len(p)) = p

\* re.match(r'true|false|1|0', sl) is a match at the start of sl, not a full match
_to_bool(s) ==
    LET sl == Lower(s) IN
    IF ~(\E p \in {"true", "false", "1", "0"} : StartsWith(sl, p))
    THEN ParseError("wrong boolean")
    ELSE Ok(PyBool(sl = "true" \/ sl = "1"))

\* str.replace(p, ''): every non-overlapping occurrence of p, left to right
RECURSIVE Remove(_, _)
Remove(s, p) ==
    IF s = "" THEN ""
    ELSE IF StartsWith(s, p) THEN Remove(SubSeq(s, Len(p) + 1, Len(s)), p)
    ELSE SubSeq(s, 1, 1) \o Remove(Tail(s), p)

\* str.strip('{}')
RECURSIVE LStrip(_)
LStrip(s) == IF s # "" /\ SubSeq(s, 1, 1) \in {"{", "}"} THEN LStrip(Tail(s)) ELSE s
RECURSIVE RStrip(_)
RStrip(s) ==
    IF s # "" /\ SubSeq(s, Len(s), Len(s)) \in {"{", "}"}
    THEN RStrip(SubSeq(s, 1, Len(s) - 1)) ELSE s

IsHexDigit(c) == \E i \in 1..22 : SubSeq("0123456789abcdefABCDEF", i, i) = c

\* '{}'.format(v) of an int or a str
Format(v) == IF v.t = "str" THEN v.s ELSE ToString(v.n)

\* uuid.UUID('{' + s + '}'): 'urn:' and 'uuid:' removed, braces stripped, hyphens
\* removed, and what is left must be 32 hexadecimal digits
_uuid_from_str(v) ==
    LET hex == Remove(RStrip(LStrip(Remove(Remove("{" \o Format(v) \o "}", "urn:"), "uuid:"))), "-")
    IN  IF Len(hex) = 32 /\ \A i \in 1..32 : IsHexDigit(SubSeq(hex, i, i))
        THEN Ok([t |-> "UUID", n |-> 0, s |-> Lower(hex)])
        ELSE ParseError("wrong UUID")

(***************************************************************************)
(* The integer and floating point types (tsdl.py), as their constructors   *)
(* leave them, and the helpers of their assignments.                       *)
(***************************************************************************)
EncodingNONE == [t |-> "Encoding", n |-> 0, s |-> "NONE"]
EncodingUTF8 == [t |-> "Encoding", n |-> 1, s |-> "UTF8"]
EncodingASCII == [t |-> "Encoding", n |-> 2, s |-> "ASCII"]

Integer == [cls |-> "Integer", signed |-> PyBool(FALSE), byte_order |-> ByteOrderNATIVE,
            base |-> PyInt(10), encoding |-> EncodingNONE, align |-> PyInt(1),
            map |-> PyNone, size |-> PyNone]

FloatingPoint == [cls |-> "FloatingPoint", exp_dig |-> PyNone, mant_dig |-> PyNone,
                  align |-> PyInt(1), byte_order |-> ByteOrderNATIVE]

_encoding_map ==
    << [k |-> "none", v |-> EncodingNONE], [k |-> "UTF8", v |-> EncodingUTF8],
       [k |-> "ASCII", v |-> EncodingASCII] >>

_encoding_from_str(s) ==
    IF ~DictHas(_encoding_map, s)
    THEN ParseError("unknown encoding")
    ELSE Ok(DictGet(_encoding_map, s))

\* the loop of _decode_unary over the items of a PostfixExpr, from the i-th on
RECURSIVE DecodeItems(_, _, _)
DecodeItems(elems, i, dec) ==
    IF i > Len(elems) THEN Ok(dec)
    ELSE IF elems[i].node = "Identifier" THEN DecodeItems(elems, i + 1, Append(dec, elems[i].value.s))
    ELSE IF elems[i].node = "Dot" THEN DecodeItems(elems, i + 1, dec)
    ELSE ParseError("cannot decode unary expression")

_decode_unary(expr) ==
    IF expr.node = "PostfixExpr" THEN DecodeItems(expr.elems, 1, <<>>)
    ELSE ParseError("cannot decode unary expression")

_base_map ==
    << [k |-> "decimal", v |-> PyInt(10)], [k |-> "dec", v |-> PyInt(10)],
       [k |-> "d", v |-> PyInt(10)], [k |-> "i", v |-> PyInt(10)],
       [k |-> "u", v |-> PyInt(10)], [k |-> "hexadecimal", v |-> PyInt(16)],
       [k |-> "hex", v |-> PyInt(16)], [k |-> "x", v |-> PyInt(16)],
       [k |-> "X", v |-> PyInt(16)], [k |-> "p", v |-> PyInt(16)],
       [k |-> "octal", v |-> PyInt(8)], [k |-> "oct", v |-> PyInt(8)],
       [k |-> "o", v |-> PyInt(8)], [k |-> "binary", v |-> PyInt(2)],
       [k |-> "bin", v |-> PyInt(2)], [k |-> "b", v |-> PyInt(2)] >>

\* a Python list of str
PyList(items) == [t |-> "list", n |-> 0, s |-> "", items |-> items]

(***************************************************************************)
(* Value assignments, one operator per parent (the object on top of _objs):*)
(* the parent after the assignment, or the exception raised.               *)
(***************************************************************************)
_value_assign_trace(trace, key, value) ==
    IF key = "major" THEN
        IF HasValue(value) THEN Ok([trace EXCEPT !.major = value.value]) ELSE NoValue
    ELSE IF key = "minor" THEN
        IF HasValue(value) THEN Ok([trace EXCEPT !.minor = value.value]) ELSE NoValue
    ELSE IF key = "uuid" THEN
        IF ~HasValue(value) THEN NoValue
        ELSE LET u == _uuid_from_str(value.value) IN
             IF u.exc # NoExc THEN u ELSE Ok([trace EXCEPT !.uuid = u.obj])
    ELSE IF key = "byte_order" THEN
        IF ~Subscriptable(value) THEN NoGetItem
        ELSE LET bo == _byte_order_from_str(value.elems[1].value.s) IN
             IF bo.exc # NoExc THEN bo ELSE Ok([trace EXCEPT !.byte_order = bo.obj])
    ELSE Ok(trace)

_value_assign_env(env, key, value) ==
    IF value.node \notin {"LiteralString", "ConstNumber"}
    THEN ParseError("wrong env value")
    ELSE Ok([env EXCEPT !.items = DictSet(@, key, value.value)])

_value_assign_clock(clock, key, value) ==
    IF key = "name" THEN
        IF Subscriptable(value) THEN Ok([clock EXCEPT !.name = value.elems[1].value])
        ELSE NoGetItem
    ELSE IF key = "description" THEN
        IF HasValue(value) THEN Ok([clock EXCEPT !.description = value.value]) ELSE NoValue
    ELSE IF key = "freq" THEN
        IF HasValue(value) THEN Ok([clock EXCEPT !.freq = value.value]) ELSE NoValue
    ELSE IF key = "precision" THEN
        IF HasValue(value) THEN Ok([clock EXCEPT !.precision = value.value]) ELSE NoValue
    ELSE IF key = "offset_s" THEN
        IF HasValue(value) THEN Ok([clock EXCEPT !.offset_s = value.value]) ELSE NoValue
    ELSE IF key = "offset" THEN
        IF HasValue(value) THEN Ok([clock EXCEPT !.offset = value.value]) ELSE NoValue
    ELSE IF key = "absolute" THEN
        IF ~Subscriptable(value) THEN NoGetItem
        ELSE LET b == _to_bool(value.elems[1].value.s) IN
             IF b.exc # NoExc THEN b ELSE Ok([clock EXCEPT !.absolute = b.obj])
    ELSE IF key = "uuid" THEN
        IF ~HasValue(value) THEN NoValue
        ELSE LET u == _uuid_from_str(value.value) IN
             IF u.exc # NoExc THEN u ELSE Ok([clock EXCEPT !.uuid = u.obj])
    ELSE Ok(clock)

_value_assign_stream(stream, key, value) ==
    IF key = "id" THEN
        IF HasValue(value) THEN Ok([stream EXCEPT !.id = value.value]) ELSE NoValue
    ELSE Ok(stream)

\* three consecutive ifs (not an elif chain), the last with the else
_value_assign_event(event, key, value) ==
    LET s1 == IF key = "id"
              THEN IF HasValue(value) THEN Ok([event EXCEPT !.id = value.value]) ELSE NoValue
              ELSE Ok(event)
        s2 == IF s1.exc # NoExc THEN s1
              ELSE IF key = "name"
              THEN IF HasValue(value) THEN Ok([s1.obj EXCEPT !.name = value.value]) ELSE NoValue
              ELSE s1
    IN  IF s2.exc # NoExc THEN s2
        ELSE IF key = "stream_id"
        THEN IF HasValue(value) THEN Ok([s2.obj EXCEPT !.stream_id = value.value]) ELSE NoValue
        ELSE s2

\* the byte_order branch assigns to the name integer, which the function does not
\* bind: the right-hand side is evaluated, then the assignment raises NameError
_value_assign_floating_point(floating_point, key, value) ==
    IF key = "exp_dig" THEN
        IF HasValue(value) THEN Ok([floating_point EXCEPT !.exp_dig = value.value])
        ELSE NoValue
    ELSE IF key = "mant_dig" THEN
        IF HasValue(value) THEN Ok([floating_point EXCEPT !.mant_dig = value.value])
        ELSE NoValue
    ELSE IF key = "align" THEN
        IF HasValue(value) THEN Ok([floating_point EXCEPT !.align = value.value])
        ELSE NoValue
    ELSE IF key = "byte_order" THEN
        IF ~Subscriptable(value) THEN NoGetItem
        ELSE LET bo == _byte_order_from_str(value.elems[1].value.s) IN
             IF bo.exc # NoExc THEN bo
             ELSE Raise("NameError", "name 'integer' is not defined")
    ELSE ParseError("unknown floating point assignment")

_value_assign_integer(integer, key, value) ==
    IF key = "size" THEN
        IF HasValue(value) THEN Ok([integer EXCEPT !.size = value.value]) ELSE NoValue
    ELSE IF key = "signed" THEN
        LET Store(b) == IF b.exc # NoExc THEN b ELSE Ok([integer EXCEPT !.signed = b.obj])
        IN  IF value.node = "ConstNumber" THEN Store(_to_bool(ToString(value.value.n)))
            ELSE IF ~Subscriptable(value) THEN NoGetItem
            ELSE Store(_to_bool(value.elems[1].value.s))
    ELSE IF key = "base" THEN
        IF value.node = "ConstNumber" THEN Ok([integer EXCEPT !.base = value.value])
        ELSE IF value.node = "PostfixExpr" THEN
            LET base == value.elems[1].value.s IN
            IF ~DictHas(_base_map, base) THEN ParseError("invalid integer base")
            ELSE Ok([integer EXCEPT !.base = DictGet(_base_map, base)])
        ELSE Ok(integer)
    ELSE IF key = "encoding" THEN
        IF ~Subscriptable(value) THEN NoGetItem
        ELSE LET e == _encoding_from_str(value.elems[1].value.s) IN
             IF e.exc # NoExc THEN e ELSE Ok([integer EXCEPT !.encoding = e.obj])
    ELSE IF key = "align" THEN
        IF HasValue(value) THEN Ok([integer EXCEPT !.align = value.value]) ELSE NoValue
    ELSE IF key = "byte_order" THEN
        IF ~Subscriptable(value) THEN NoGetItem
        ELSE LET bo == _byte_order_from_str(value.elems[1].value.s) IN
             IF bo.exc # NoExc THEN bo ELSE Ok([integer EXCEPT !.byte_order = bo.obj])
    ELSE IF key = "map" THEN
        LET map == _decode_unary(value) IN
        IF map.exc # NoExc THEN map
        ELSE IF map.obj = <<>> THEN Raise("IndexError", "list index out of range")
        ELSE IF map.obj[1] # "clock" THEN ParseError("integer maps to non-clock node")
        ELSE Ok([integer EXCEPT !.map = PyList(map.obj)])
    ELSE ParseError("unknown integer assignment")

\* self._value_assignment_map[type(obj)](key, value)
_value_assignment_map(obj, key, value) ==
    CASE obj.cls = "Trace" -> _value_assign_trace(obj, key, value)
      [] obj.cls = "Env" -> _value_assign_env(obj, key, value)
      [] obj.cls = "Clock" -> _value_assign_clock(obj, key, value)
      [] obj.cls = "Stream" -> _value_assign_stream(obj, key, value)
      [] obj.cls = "Event" -> _value_assign_event(obj, key, value)
      [] obj.cls = "Integer" -> _value_assign_integer(obj, key, value)
      [] obj.cls = "FloatingPoint" -> _value_assign_floating_point(obj, key, value)
      [] OTHER -> Raise("KeyError", "no value assignment for this parent")

(***************************************************************************)
(* The visitor's stacks.                                                   *)
(***************************************************************************)
_get_cur_obj == objs[Len(objs)]
_push_obj(stack, obj) == Append(stack, obj)
_pop_obj(stack) == SubSeq(stack, 1, Len(stack) - 1)
_push_scope_store(stores) == Append(stores, <<>>)
\* a pop that leaves the frame on the stack
_pop_scope_store_Keep(stores) == stores
_pop_scope_store(stores) == SubSeq(stores, 1, Len(stores) - 1)

\* Raised that records the exception and lets the visit go on
Raised_Swallowed(e) ==
    /\ pc' = pc
    /\ exc' = e

\* an exception leaves the visitor: nothing catches it, nothing is unwound
Raised(e) ==
    /\ pc' = "raised"
    /\ exc' = e

(***************************************************************************)
(* The values and keys the entries of a block are drawn from.              *)
(***************************************************************************)
Id(x) == PostfixExpr(<<Identifier(x)>>)

Keys(cls) ==
    CASE cls = "Trace" -> {"major", "minor"}
      [] cls = "Env" -> {"domain"}
      [] cls = "Clock" -> {"name", "freq"}
      [] cls = "Stream" -> {"id"}
      [] cls = "Event" -> {"id", "name", "stream_id", "loglevel"}

Values(cls, key) ==
    CASE cls = "Trace" -> {ConstNumber(1)}
      [] cls = "Env" -> {LiteralString("a"), Id("a")}
      [] cls = "Clock" /\ key = "name" -> {Id("a"), Id("b"), ConstNumber(0)}
      [] cls = "Clock" /\ key = "freq" -> {ConstNumber(1), Id("a")}
      [] cls = "Stream" -> {ConstNumber(0), ConstNumber(1), Id("a")}
      [] cls = "Event" /\ key = "id" -> {ConstNumber(0), ConstNumber(1), Id("a")}
      [] cls = "Event" /\ key = "name" -> {LiteralString("a"), LiteralString("b"), Id("a")}
      [] cls = "Event" /\ key = "stream_id" -> {ConstNumber(0), ConstNumber(1)}
      [] cls = "Event" /\ key = "loglevel" -> {ConstNumber(1)}

(***************************************************************************)
(* visit_Top up to the loop of _visit_scope: the state is reset, the Doc   *)
(* and the top-level scope store are pushed.                               *)
(***************************************************************************)
visit_Top_Enter ==
    /\ pc = "init"
    /\ objs' = _push_obj(<<>>, Doc)
    /\ scope_stores' = _push_scope_store(<<>>)
    /\ pc' = "top"
    /\ UNCHANGED <<exc, doc, made, node, heap>>

\* _visit_scope of a top-level block up to its loop: the block's object and a
\* scope store are pushed
EnterBlock(obj) ==
    /\ pc = "top"
    /\ objs' = _push_obj(objs, obj)
    /\ scope_stores' = _push_scope_store(scope_stores)
    /\ pc' = "block"
    /\ UNCHANGED <<node, heap>>
    /\ UNCHANGED <<exc, doc>>

visit_Trace_Enter == EnterBlock(Trace) /\ UNCHANGED made
visit_Env_Enter == EnterBlock(Env) /\ UNCHANGED made
visit_Clock_Enter == EnterBlock(Clock) /\ UNCHANGED made
visit_Stream_Enter == EnterBlock(Stream) /\ UNCHANGED made
visit_Event_Enter ==
    /\ Cardinality(made) < MaxEvents
    /\ EnterBlock(Event(Cardinality(made) + 1))
    /\ made' = made \cup {Cardinality(made) + 1}

\* the handler on the entry `key = value;`
Assignment(key, value) ==
    LET r == _value_assignment_map(_get_cur_obj, key, value) IN
    IF r.exc # NoExc
    THEN Raised(r.exc) /\ UNCHANGED objs
    ELSE /\ objs' = [objs EXCEPT ![Len(objs)] = r.obj]
         /\ UNCHANGED <<pc, exc>>

\* one ValueAssignment entry of the current block
visit_ValueAssignment ==
    /\ pc = "block"
    /\ \E key \in Keys(_get_cur_obj.cls) :
       \E value \in Values(_get_cur_obj.cls, key) : Assignment(key, value)
    /\ UNCHANGED <<scope_stores, doc, made, node, heap>>

(***************************************************************************)
(* The rest of each block's handler: _visit_scope pops the scope store and *)
(* the object, and the handler checks and registers the object in the Doc, *)
(* which is then on top of _objs.                                          *)
(***************************************************************************)
ExitBlock(cls) ==
    /\ pc = "block"
    /\ _get_cur_obj.cls = cls
    /\ scope_stores' = _pop_scope_store(scope_stores)
    /\ UNCHANGED <<doc, made, node, heap>>

\* the new _objs: the block's object popped, the Doc below it replaced by d
WithDoc(d) == [_pop_obj(objs) EXCEPT ![Len(objs) - 1] = d]
CurDoc == objs[Len(objs) - 1]

visit_Trace_Exit ==
    /\ ExitBlock("Trace")
    /\ LET trace == _get_cur_obj IN
       IF trace.major = PyNone
       THEN Raised(ParseError("trace block is missing major version").exc)
            /\ objs' = _pop_obj(objs)
       ELSE IF trace.minor = PyNone
       THEN Raised(ParseError("trace block is missing minor version").exc)
            /\ objs' = _pop_obj(objs)
       ELSE /\ objs' = WithDoc([CurDoc EXCEPT !.trace = trace])
            /\ pc' = "top"
            /\ UNCHANGED exc

visit_Env_Exit ==
    /\ ExitBlock("Env")
    /\ objs' = WithDoc([CurDoc EXCEPT !.env = _get_cur_obj])
    /\ pc' = "top"
    /\ UNCHANGED exc

\* visit_Clock_Register without the check of the name
visit_Clock_Register_NoDup(d, clock) ==
    IF clock.name = PyNone THEN ParseError("clock block is missing name")
    ELSE IF clock.freq = PyNone THEN ParseError("clock block is missing frequency")
    ELSE Ok([d EXCEPT !.clocks = DictSet(@, clock.name, clock)])

visit_Clock_Register(d, clock) ==
    IF clock.name = PyNone THEN ParseError("clock block is missing name")
    ELSE IF clock.freq = PyNone THEN ParseError("clock block is missing frequency")
    ELSE IF DictHas(d.clocks, clock.name) THEN ParseError("duplicate clock")
    ELSE Ok([d EXCEPT !.clocks = DictSet(@, clock.name, clock)])

visit_Clock_Exit ==
    /\ ExitBlock("Clock")
    /\ LET r == visit_Clock_Register(CurDoc, _get_cur_obj) IN
       IF r.exc # NoExc
       THEN Raised(r.exc) /\ objs' = _pop_obj(objs)
       ELSE objs' = WithDoc(r.obj) /\ pc' = "top" /\ UNCHANGED exc

visit_Stream_Register(d, stream) ==
    IF DictHas(d.streams, stream.id) THEN ParseError("duplicate stream")
    ELSE Ok([d EXCEPT !.streams = DictSet(@, stream.id, stream)])

visit_Stream_Exit ==
    /\ ExitBlock("Stream")
    /\ LET r == visit_Stream_Register(CurDoc, _get_cur_obj) IN
       IF r.exc # NoExc
       THEN Raised(r.exc) /\ objs' = _pop_obj(objs)
       ELSE objs' = WithDoc(r.obj) /\ pc' = "top" /\ UNCHANGED exc

\* the stream an event goes to: its stream_id, 0 when it has none
EventSid(event) == IF event.stream_id # PyNone THEN event.stream_id ELSE PyInt(0)

\* visit_Event_Attach that makes the stream an event names when there is none
visit_Event_Attach_NewStream(d, event) ==
    IF event.id = PyNone THEN ParseError("event is missing ID")
    ELSE IF event.name = PyNone THEN ParseError("event is missing name")
    ELSE LET sid == EventSid(event)
             stream == IF DictHas(d.streams, sid) THEN DictGet(d.streams, sid)
                       ELSE [Stream EXCEPT !.id = sid]
         IN  Ok([d EXCEPT !.streams =
                    DictSet(@, sid, [stream EXCEPT !.events = Append(@, event)])])

\* visit_Event_Attach that ignores the event's stream_id
visit_Event_Attach_NoSid(d, event) ==
    IF event.id = PyNone THEN ParseError("event is missing ID")
    ELSE IF event.name = PyNone THEN ParseError("event is missing name")
    ELSE LET sid == PyInt(0) IN
         IF ~DictHas(d.streams, sid) THEN ParseError("stream not found for event")
         ELSE LET stream == DictGet(d.streams, sid) IN
              Ok([d EXCEPT !.streams =
                     DictSet(@, sid, [stream EXCEPT !.events = Append(@, event)])])

\* an attachment that lets the event of an unregistered stream pass
visit_Event_Attach_Deferred(d, event) ==
    IF event.id = PyNone THEN ParseError("event is missing ID")
    ELSE IF event.name = PyNone THEN ParseError("event is missing name")
    ELSE LET sid == EventSid(event) IN
         IF ~DictHas(d.streams, sid) THEN Ok(d)
         ELSE LET stream == DictGet(d.streams, sid) IN
              Ok([d EXCEPT !.streams =
                     DictSet(@, sid, [stream EXCEPT !.events = Append(@, event)])])

visit_Event_Attach(d, event) ==
    IF event.id = PyNone THEN ParseError("event is missing ID")
    ELSE IF event.name = PyNone THEN ParseError("event is missing name")
    ELSE LET sid == EventSid(event) IN
         IF ~DictHas(d.streams, sid) THEN ParseError("stream not found for event")
         ELSE LET stream == DictGet(d.streams, sid) IN
              Ok([d EXCEPT !.streams =
                     DictSet(@, sid, [stream EXCEPT !.events = Append(@, event)])])

visit_Event_Exit ==
    /\ ExitBlock("Event")
    /\ LET r == visit_Event_Attach(CurDoc, _get_cur_obj) IN
       IF r.exc # NoExc
       THEN Raised(r.exc) /\ objs' = _pop_obj(objs)
       ELSE objs' = WithDoc(r.obj) /\ pc' = "top" /\ UNCHANGED exc

(***************************************************************************)
(* The rest of visit_Top: the Doc is popped and kept as _doc, then checked.*)
(***************************************************************************)
\* ScanEvents without the check of the ids
RECURSIVE ScanEvents_NoIdCheck(_, _, _, _)
ScanEvents_NoIdCheck(events, i, enames, eids) ==
    IF i > Len(events) THEN NoExc
    ELSE LET e == events[i] IN
         IF e.name \in enames THEN ParseError("duplicate event").exc
         ELSE ScanEvents_NoIdCheck(events, i + 1, enames \cup {e.name}, eids)

\* the scan of one stream's events, from events[i] on: the exception it raises
RECURSIVE ScanEvents(_, _, _, _)
ScanEvents(events, i, enames, eids) ==
    IF i > Len(events) THEN NoExc
    ELSE LET e == events[i] IN
         IF e.name \in enames THEN ParseError("duplicate event").exc
         ELSE IF e.id \in eids THEN ParseError("duplicate event").exc
         ELSE ScanEvents(events, i + 1, enames \cup {e.name}, eids \cup {e.id})

\* Stream.init_events_dict: the events by id and by name
RECURSIVE EventsDict(_, _)
EventsDict(events, i) ==
    IF i = 0 THEN <<>>
    ELSE DictSet(DictSet(EventsDict(events, i - 1), events[i].id, events[i]),
                 events[i].name, events[i])

init_events_dict(stream) ==
    ("_events_dict" :> EventsDict(stream.events, Len(stream.events))) @@ stream

\* the loop over doc.streams.values(), from the i-th stream on
RECURSIVE CheckStreams(_, _)
CheckStreams(streams, i) ==
    IF i > Len(streams) THEN [exc |-> NoExc, streams |-> streams]
    ELSE LET e == ScanEvents(streams[i].v.events, 1, {}, {}) IN
         IF e # NoExc THEN [exc |-> e, streams |-> streams]
         ELSE CheckStreams([streams EXCEPT ![i].v = init_events_dict(@)], i + 1)

\* visit_Top_Check without the check that a stream is defined
visit_Top_Check_NoStreamCheck(d) ==
    IF d.clocks = <<>> THEN [exc |-> ParseError("no clocks defined").exc, obj |-> d]
    ELSE LET r == CheckStreams(d.streams, 1) IN
         [exc |-> r.exc, obj |-> [d EXCEPT !.streams = r.streams]]

visit_Top_Check(d) ==
    IF d.clocks = <<>> THEN [exc |-> ParseError("no clocks defined").exc, obj |-> d]
    ELSE IF d.streams = <<>> THEN [exc |-> ParseError("no streams defined").exc, obj |-> d]
    ELSE LET r == CheckStreams(d.streams, 1) IN
         [exc |-> r.exc, obj |-> [d EXCEPT !.streams = r.streams]]

visit_Top_Exit ==
    /\ pc = "top"
    /\ scope_stores' = _pop_scope_store(scope_stores)
    /\ objs' = _pop_obj(objs)
    /\ LET r == visit_Top_Check(_get_cur_obj) IN
       /\ doc' = r.obj
       /\ exc' = r.exc
       /\ pc' = IF r.exc # NoExc THEN "raised" ELSE "done"
    /\ UNCHANGED <<made, node, heap>>

Init ==
    /\ pc = "init"
    /\ exc = NoExc
    /\ objs = <<>>
    /\ scope_stores = <<>>
    /\ doc = PyNone
    /\ made = {}
    /\ node = PyNone
    /\ heap = <<>>

(***************************************************************************)
(* Spec: the sources made of clock, stream and event blocks.  A trace or   *)
(* env block reads and writes nothing but doc.trace and doc.env, so the    *)
(* clocks, streams and events of a Doc are decided by these blocks alone;  *)
(* SpecMeta is the visitor over trace, env and clock blocks.               *)
(***************************************************************************)
Next ==
    \/ visit_Top_Enter
    \/ visit_Clock_Enter
    \/ visit_Stream_Enter
    \/ visit_Event_Enter
    \/ visit_ValueAssignment
    \/ visit_Clock_Exit
    \/ visit_Stream_Exit
    \/ visit_Event_Exit
    \/ visit_Top_Exit

Spec == Init /\ [][Next]_vars

NextMeta ==
    \/ visit_Top_Enter
    \/ visit_Trace_Enter
    \/ visit_Env_Enter
    \/ visit_Clock_Enter
    \/ visit_ValueAssignment
    \/ visit_Trace_Exit
    \/ visit_Env_Exit
    \/ visit_Clock_Exit
    \/ visit_Top_Exit

SpecMeta == Init /\ [][NextMeta]_vars

(***************************************************************************)
(* Types (tsdl.py), as their constructors leave them.                      *)
(***************************************************************************)
String == [cls |-> "String", encoding |-> EncodingNONE]

\* Enum() has labels; its integer attribute exists once it is assigned
Enum == [cls |-> "Enum", labels |-> <<>>]

Struct == [cls |-> "Struct", align |-> PyNone, fields |-> <<>>]

\* the objects of the heap: an OrderedDict, and a Variant() whose _fields is the
\* address of its OrderedDict; Ref(a) is a reference to the object at address a
OrderedDict == [cls |-> "OrderedDict", items |-> <<>>]
Variant(fields) == [cls |-> "Variant", _tag |-> PyNone, _fields |-> fields]
Ref(a) == [cls |-> "Ref", addr |-> a]

\* Array() and Sequence() with length and element assigned
Array(length, element) == [cls |-> "Array", length |-> length, element |-> element]
Sequence(length, element) == [cls |-> "Sequence", length |-> length, element |-> element]

(***************************************************************************)
(* Syntax nodes of types, aliases and fields.  A subscript is modelled by  *)
(* its expression (subscript.value.expr), an enum's int_type and an        *)
(* alias's name by the Identifier the node's constructor builds.           *)
(***************************************************************************)
ValueAssignment(key, value) == [node |-> "ValueAssignment", key |-> Identifier(key), value |-> value]
StringNode(value) == [node |-> "String", value |-> value]
EnumeratorValue(key, value) == [node |-> "EnumeratorValue", key |-> key, value |-> value]
EnumeratorRange(key, low, high) ==
    [node |-> "EnumeratorRange", key |-> key, low |-> low, high |-> high]
EnumNode(int_type, enumerators) ==
    [node |-> "Enum", int_type |-> Identifier(int_type), enumerators |-> enumerators]
TypeAlias(type, name) == [node |-> "TypeAlias", type |-> type, name |-> Identifier(name)]
Declarator(name, subscripts) == [name |-> Identifier(name), subscripts |-> subscripts]
TypeField(type, decl) == [node |-> "TypeField", type |-> type, decl |-> decl]
IdentifierField(type, decl) ==
    [node |-> "IdentifierField", type |-> Identifier(type), decl |-> decl]
\* name and tag are None when the declaration has none; tag is the expression of
\* the VariantTag (tag.value.expr)
VariantFull(name, tag, entries) ==
    [node |-> "VariantFull", name |-> name, tag |-> tag, entries |-> entries]
VariantRef(name, tag) == [node |-> "VariantRef", name |-> Identifier(name), tag |-> tag]
\* a StructFull whose entries are visited one by one; name is None when it has none
StructFull(name) == [node |-> "StructFull", name |-> name, align |-> PyNone]
StructRef(name) == [node |-> "StructRef", value |-> Identifier(name)]

(***************************************************************************)
(* The scope stores: a stack of dicts keyed by prefix + name.              *)
(***************************************************************************)
_store(stores, prefix, name, obj) ==
    [stores EXCEPT ![Len(stores)] = DictSet(@, prefix \o name, obj)]

reftype(prefix) ==
    CASE prefix = "a" -> "alias" [] prefix = "s" -> "struct" [] prefix = "v" -> "variant"

\* _resolve that walks the scope stores from the outermost one
_resolve_Outermost(stores, prefix, name) ==
    LET search == prefix \o name
        hits == {i \in DOMAIN stores : DictHas(stores[i], search)}
    IN  IF hits # {}
        THEN Ok(DictGet(stores[CHOOSE i \in hits : \A j \in hits : i <= j], search))
        ELSE ParseError("cannot resolve " \o reftype(prefix))

\* for ss in reversed(self._scope_stores): the innermost store that has the key
_resolve(stores, prefix, name) ==
    LET search == prefix \o name
        hits == {i \in DOMAIN stores : DictHas(stores[i], search)}
    IN  IF hits # {}
        THEN Ok(DictGet(stores[CHOOSE i \in hits : \A j \in hits : j <= i], search))
        ELSE ParseError("cannot resolve " \o reftype(prefix))

_store_alias(stores, name, obj) == _store(stores, "a", name, obj)
_resolve_alias(stores, name) == _resolve(stores, "a", name)
_store_struct(stores, name, obj) == _store(stores, "s", name, obj)
_resolve_struct(stores, name) == _resolve(stores, "s", name)

_struct_ref_to_obj(stores, t) == _resolve_struct(stores, t.value.value.s)

_string_to_obj(t) ==
    IF t.value # PyNone
    THEN IF ~Subscriptable(t.value.value) THEN NoGetItem
         ELSE LET e == _encoding_from_str(t.value.value.elems[1].value.s) IN
              IF e.exc # NoExc THEN e ELSE Ok([String EXCEPT !.encoding = e.obj])
    ELSE Ok(String)

\* check_label without the check
check_label_Never(labels, label) == NoExc

\* check_label of _enum_to_obj: the exception it raises
check_label(labels, label) ==
    IF DictHas(labels, label) THEN ParseError("duplicate enum label").exc ELSE NoExc

\* the loop of _enum_to_obj over t.enumerators, from the i-th on: the labels
RECURSIVE EnumLoop(_, _, _, _)
EnumLoop(es, i, labels, cur) ==
    IF i > Len(es) THEN Ok(labels)
    ELSE LET e == es[i] IN
         IF e.node \in {"Identifier", "LiteralString"} THEN
             LET label == e.value IN
             IF check_label(labels, label) # NoExc
             THEN [exc |-> check_label(labels, label), obj |-> PyNone]
             ELSE EnumLoop(es, i + 1, DictSet(labels, label, <<cur, cur>>), cur + 1)
         ELSE IF e.node = "EnumeratorValue" THEN
             LET label == e.key.value IN
             IF check_label(labels, label) # NoExc
             THEN [exc |-> check_label(labels, label), obj |-> PyNone]
             ELSE EnumLoop(es, i + 1, DictSet(labels, label, <<e.value, e.value>>), e.value)
         ELSE IF e.node = "EnumeratorRange" THEN
             LET label == e.key.value IN
             IF check_label(labels, label) # NoExc
             THEN [exc |-> check_label(labels, label), obj |-> PyNone]
             ELSE IF e.low > e.high THEN ParseError("invalid enum range")
             ELSE EnumLoop(es, i + 1, DictSet(labels, label, <<e.low, e.high>>), e.high + 1)
         ELSE EnumLoop(es, i + 1, labels, cur)

_enum_to_obj(stores, t) ==
    LET integer == _resolve_alias(stores, t.int_type.value.s) IN
    IF integer.exc # NoExc THEN integer
    ELSE LET r == EnumLoop(t.enumerators, 1, Enum.labels, 0) IN
         IF r.exc # NoExc THEN r
         ELSE Ok([cls |-> "Enum", integer |-> integer.obj, labels |-> r.obj])

\* subscript is the expression of the subscript node
_subscript_to_obj(subscript, element) ==
    IF subscript.node = "PostfixExpr" THEN
        LET length == _decode_unary(subscript) IN
        IF length.exc # NoExc THEN length ELSE Ok(Sequence(length.obj, element))
    ELSE IF subscript.node = "ConstNumber" THEN
        Ok(Array(subscript.value, element))
    ELSE ParseError("invalid subscript type")

\* the loop of _decl_to_obj over decl.subscripts, from the i-th on
RECURSIVE DeclLoop(_, _, _)
DeclLoop(subscripts, i, cur_obj) ==
    IF i > Len(subscripts) THEN Ok(cur_obj)
    ELSE LET r == _subscript_to_obj(subscripts[i], cur_obj) IN
         IF r.exc # NoExc THEN r ELSE DeclLoop(subscripts, i + 1, r.obj)

\* _decl_to_obj whose loop runs over decl.subscripts instead of decl.subscripts[1:]
_decl_to_obj_WholeLoop(decl, base_obj) ==
    IF decl.subscripts = <<>> THEN Ok(base_obj)
    ELSE LET first == _subscript_to_obj(decl.subscripts[1], base_obj) IN
         IF first.exc # NoExc THEN first
         ELSE DeclLoop(decl.subscripts, 1, first.obj)

_decl_to_obj(decl, base_obj) ==
    IF decl.subscripts = <<>> THEN Ok(base_obj)
    ELSE LET first == _subscript_to_obj(decl.subscripts[1], base_obj) IN
         IF first.exc # NoExc THEN first
         ELSE DeclLoop(decl.subscripts, 2, first.obj)

(***************************************************************************)
(* SpecTypes: the sources whose blocks assign each attribute in the forms  *)
(* its handler distinguishes, and whose top level declares integer and     *)
(* floating point aliases.  _integer_to_obj and _floating_point_to_obj     *)
(* push the type, let each assignment accept the visitor, and pop: they    *)
(* are entered and left like a block, without a scope store.               *)
(***************************************************************************)
AttrKeys(cls) ==
    CASE cls = "Trace" -> {"major", "minor"}
      [] cls = "Clock" -> {"name", "freq", "absolute"}
      [] cls = "Stream" -> {"id"}
      [] cls = "Event" -> {"id", "name"}
      [] cls = "Integer" -> {"size", "signed", "base", "bogus"}
      [] cls = "FloatingPoint" -> {"exp_dig", "mant_dig", "byte_order"}

AttrValues(cls, key) ==
    CASE cls = "Trace" -> {ConstNumber(1)}
      [] cls = "Clock" /\ key = "name" -> {Id("a")}
      [] cls = "Clock" /\ key = "freq" -> {ConstNumber(1)}
      [] cls = "Clock" /\ key = "absolute" ->
            {Id("true"), Id("false"), Id("TRUE"), Id("yes"), ConstNumber(1), ConstNumber(0)}
      [] cls = "Stream" -> {ConstNumber(0)}
      [] cls = "Event" /\ key = "id" -> {ConstNumber(0)}
      [] cls = "Event" /\ key = "name" -> {LiteralString("foo"), Id("foo")}
      [] cls = "Integer" /\ key = "size" -> {ConstNumber(8)}
      [] cls = "Integer" /\ key = "signed" ->
            {Id("true"), Id("False"), ConstNumber(1), ConstNumber(0), Id("truex"),
             Id("yes"), ConstNumber(10)}
      [] cls = "Integer" /\ key = "base" ->
            {ConstNumber(16), ConstNumber(7), Id("hex"), Id("b"), Id("nope"),
             LiteralString("hex")}
      [] cls = "Integer" /\ key = "bogus" -> {ConstNumber(0)}
      [] cls = "FloatingPoint" /\ key \in {"exp_dig", "mant_dig"} -> {ConstNumber(8)}
      [] cls = "FloatingPoint" /\ key = "byte_order" ->
            {Id("le"), Id("be"), Id("network"), Id("native"), Id("pdp")}

\* one ValueAssignment entry of the current block or type
visit_ValueAssignment_Attr ==
    /\ pc = "block"
    /\ \E key \in AttrKeys(_get_cur_obj.cls) :
       \E value \in AttrValues(_get_cur_obj.cls, key) : Assignment(key, value)
    /\ UNCHANGED <<scope_stores, doc, made, node, heap>>

\* visit_TypeAlias of `typealias integer { ... } := int;` up to the loop of
\* _integer_to_obj
_integer_to_obj_Enter ==
    /\ pc = "top"
    /\ objs' = _push_obj(objs, Integer)
    /\ pc' = "block"
    /\ UNCHANGED <<exc, scope_stores, doc, made, node, heap>>

\* _integer_to_obj without the check of the size
_integer_to_obj_Check_NoSize(integer) == Ok(integer)

\* the end of _integer_to_obj
_integer_to_obj_Check(integer) ==
    IF integer.size = PyNone THEN ParseError("integer missing size") ELSE Ok(integer)

\* the end of _floating_point_to_obj
_floating_point_to_obj_Check(floating_point) ==
    IF floating_point.exp_dig = PyNone
    THEN ParseError("floating point missing exponent digits")
    ELSE IF floating_point.mant_dig = PyNone
    THEN ParseError("floating point missing mantissa digits")
    ELSE Ok(floating_point)

\* the type is popped and checked, and visit_TypeAlias binds it to name
TypeAlias_Exit(r, name) ==
    /\ pc = "block"
    /\ objs' = _pop_obj(objs)
    /\ IF r.exc # NoExc
       THEN Raised(r.exc) /\ UNCHANGED scope_stores
       ELSE /\ scope_stores' = _store_alias(scope_stores, name, r.obj)
            /\ pc' = "top"
            /\ UNCHANGED exc
    /\ UNCHANGED <<doc, made, node, heap>>

_integer_to_obj_Exit ==
    /\ pc = "block"
    /\ _get_cur_obj.cls = "Integer"
    /\ TypeAlias_Exit(_integer_to_obj_Check(_get_cur_obj), "int")

\* visit_TypeAlias of `typealias floating_point { ... } := fp;` up to the loop of
\* _floating_point_to_obj
_floating_point_to_obj_Enter ==
    /\ pc = "top"
    /\ objs' = _push_obj(objs, FloatingPoint)
    /\ pc' = "block"
    /\ UNCHANGED <<exc, scope_stores, doc, made, node, heap>>

_floating_point_to_obj_Exit ==
    /\ pc = "block"
    /\ _get_cur_obj.cls = "FloatingPoint"
    /\ TypeAlias_Exit(_floating_point_to_obj_Check(_get_cur_obj), "fp")

NextTypes ==
    \/ visit_Top_Enter
    \/ visit_Trace_Enter
    \/ visit_Clock_Enter
    \/ visit_Stream_Enter
    \/ visit_Event_Enter
    \/ _integer_to_obj_Enter
    \/ _floating_point_to_obj_Enter
    \/ visit_ValueAssignment_Attr
    \/ visit_Trace_Exit
    \/ visit_Clock_Exit
    \/ visit_Stream_Exit
    \/ visit_Event_Exit
    \/ _integer_to_obj_Exit
    \/ _floating_point_to_obj_Exit
    \/ visit_Top_Exit

SpecTypes == Init /\ [][NextTypes]_vars

(***************************************************************************)
(* The constructors that visit a scope work on the visitor's stacks and on *)
(* the heap: they return the exception raised if any, the object, and the  *)
(* stacks and the heap as they leave them.                                 *)
(***************************************************************************)
Res(e, o, os, ss, hp) == [exc |-> e, obj |-> o, objs |-> os, stores |-> ss, heap |-> hp]

\* visit_IdentifierField on the variant on top of os: the loop of _visit_scope over
\* the entries of a variant's body, from the i-th on
RECURSIVE VisitEntries(_, _, _, _, _)
VisitEntries(os, ss, hp, entries, i) ==
    IF i > Len(entries) THEN Res(NoExc, PyNone, os, ss, hp)
    ELSE LET struct_variant == os[Len(os)].addr
             Assign(obj) ==
                 IF obj.exc # NoExc THEN Res(obj.exc, PyNone, os, ss, hp)
                 ELSE VisitEntries(os, ss,
                          [hp EXCEPT ![hp[struct_variant]._fields].items =
                              DictSet(@, entries[i].decl.name.value, obj.obj)],
                          entries, i + 1)
             Declare(field_obj) ==
                 IF field_obj.exc # NoExc THEN Res(field_obj.exc, PyNone, os, ss, hp)
                 ELSE Assign(_decl_to_obj(entries[i].decl, field_obj.obj))
         IN  Declare(_resolve_alias(ss, entries[i].type.value.s))

\* self._visit_scope(t, pytsdl.tsdl.Variant())
_visit_scope(os, ss, hp, t) ==
    LET fields == Len(hp) + 1
        variant == Len(hp) + 2
        Pop(r) ==
            IF r.exc # NoExc THEN r
            ELSE Res(NoExc, r.objs[Len(r.objs)], _pop_obj(r.objs),
                     _pop_scope_store(r.stores), r.heap)
    IN  Pop(VisitEntries(_push_obj(os, Ref(variant)), _push_scope_store(ss),
                         hp \o <<OrderedDict, Variant(fields)>>, t.entries, 1))

_store_variant(stores, name, obj) == _store(stores, "v", name, obj)
_resolve_variant(stores, name) == _resolve(stores, "v", name)

_variant_full_to_obj(os, ss, hp, t) ==
    LET Store(variant) ==
            IF variant.exc # NoExc THEN variant
            ELSE IF t.name # PyNone
            THEN Res(NoExc, variant.obj, variant.objs,
                     _store_variant(variant.stores, t.name.value.s, variant.obj),
                     variant.heap)
            ELSE variant
    IN  Store(_visit_scope(os, ss, hp, t))

\* copy.copy(obj): a new object whose attributes are those of obj, the objects
\* they refer to being the same
copy(hp, obj) == Res(NoExc, Ref(Len(hp) + 1), <<>>, <<>>, Append(hp, hp[obj.addr]))

\* _variant_ref_to_obj that assigns the tag to the resolved variant, uncopied
_variant_ref_to_obj_NoCopy(os, ss, hp, t) ==
    LET Tag(variant, tag) ==
            IF tag.exc # NoExc THEN Res(tag.exc, PyNone, os, ss, hp)
            ELSE Res(NoExc, variant.obj, os, ss,
                     [hp EXCEPT ![variant.obj.addr]._tag = PyList(tag.obj)])
        Resolved(variant) ==
            IF variant.exc # NoExc THEN Res(variant.exc, PyNone, os, ss, hp)
            ELSE Tag(variant, _decode_unary(t.tag))
    IN  Resolved(_resolve_variant(ss, t.name.value.s))

_variant_ref_to_obj(os, ss, hp, t) ==
    LET Tag(variant_copy, tag) ==
            IF tag.exc # NoExc THEN Res(tag.exc, PyNone, os, ss, variant_copy.heap)
            ELSE Res(NoExc, variant_copy.obj, os, ss,
                     [variant_copy.heap EXCEPT ![variant_copy.obj.addr]._tag =
                         PyList(tag.obj)])
        Resolved(variant) ==
            IF variant.exc # NoExc THEN Res(variant.exc, PyNone, os, ss, hp)
            ELSE Tag(copy(hp, variant.obj), _decode_unary(t.tag))
    IN  Resolved(_resolve_variant(ss, t.name.value.s))

\* self._type_to_obj_map[type(t)](t)
_type_to_obj(os, ss, hp, t) ==
    LET Pure(r) == Res(r.exc, r.obj, os, ss, hp) IN
    CASE t.node = "String" -> Pure(_string_to_obj(t))
      [] t.node = "Enum" -> Pure(_enum_to_obj(ss, t))
      [] t.node = "VariantFull" -> _variant_full_to_obj(os, ss, hp, t)
      [] t.node = "VariantRef" -> _variant_ref_to_obj(os, ss, hp, t)
      [] t.node = "StructRef" -> Pure(_struct_ref_to_obj(ss, t))
      [] OTHER -> Res(Raise("KeyError", "no type constructor for this node").exc,
                      PyNone, os, ss, hp)

(***************************************************************************)
(* The entries of a struct's body.  SpecEntry: the visitor in the body of  *)
(* a top-level struct, where the aliases of TopAliases are bound in the    *)
(* top-level store, visits one entry: a type alias or a field.             *)
(***************************************************************************)
\* obj = self._type_to_obj(node.type); self._store_alias(node.name.value, obj)
visit_TypeAlias ==
    /\ pc = "entry"
    /\ node.node = "TypeAlias"
    /\ LET Store(obj) ==
               IF obj.exc # NoExc
               THEN /\ Raised(obj.exc)
                    /\ objs' = obj.objs /\ scope_stores' = obj.stores /\ heap' = obj.heap
               ELSE /\ scope_stores' = _store_alias(obj.stores, node.name.value.s, obj.obj)
                    /\ objs' = obj.objs /\ heap' = obj.heap
                    /\ pc' = "visited"
                    /\ UNCHANGED exc
       IN  Store(_type_to_obj(objs, scope_stores, heap, node.type))
    /\ UNCHANGED <<doc, made, node>>

\* struct_variant.fields[t.decl.name.value] = obj
SetField(field_obj) ==
    LET Assign(obj) ==
            IF obj.exc # NoExc
            THEN Raised(obj.exc) /\ UNCHANGED objs
            ELSE /\ objs' = [objs EXCEPT ![Len(objs)].fields =
                                DictSet(@, node.decl.name.value, obj.obj)]
                 /\ pc' = "visited"
                 /\ UNCHANGED exc
    IN  Assign(_decl_to_obj(node.decl, field_obj))

visit_TypeField ==
    /\ pc = "entry"
    /\ node.node = "TypeField"
    /\ LET Declare(field_obj) ==
               /\ IF field_obj.exc # NoExc
                  THEN Raised(field_obj.exc) /\ objs' = field_obj.objs
                  ELSE SetField(field_obj.obj)
               /\ scope_stores' = field_obj.stores
               /\ heap' = field_obj.heap
       IN  Declare(_type_to_obj(objs, scope_stores, heap, node.type))
    /\ UNCHANGED <<doc, made, node>>

visit_IdentifierField ==
    /\ pc = "entry"
    /\ node.node = "IdentifierField"
    /\ LET field_obj == _resolve_alias(scope_stores, node.type.value.s) IN
       IF field_obj.exc # NoExc
       THEN Raised(field_obj.exc) /\ UNCHANGED objs
       ELSE SetField(field_obj.obj)
    /\ UNCHANGED <<scope_stores, doc, made, node, heap>>

\* self._variant_full_to_obj(t), its result dropped
visit_VariantFull ==
    /\ pc = "entry"
    /\ node.node = "VariantFull"
    /\ LET Drop(r) ==
               /\ IF r.exc # NoExc THEN Raised(r.exc) ELSE pc' = "visited" /\ UNCHANGED exc
               /\ objs' = r.objs
               /\ scope_stores' = r.stores
               /\ heap' = r.heap
       IN  Drop(_variant_full_to_obj(objs, scope_stores, heap, node))
    /\ UNCHANGED <<doc, made, node>>

MaxSubscripts == 3     \* subscripts of a declarator
MaxEnumerators == 4    \* enumerators of an enum

SeqsUpTo(S, n) == UNION {[1..k -> S] : k \in 0..n}

\* the aliases bound by
\*   typealias integer { size = 32; } := int;  typealias integer { size = 8; } := u8;
\*   typealias string := s;
TopAliases ==
    << [k |-> "aint", v |-> [Integer EXCEPT !.size = PyInt(32)]],
       [k |-> "au8", v |-> [Integer EXCEPT !.size = PyInt(8)]],
       [k |-> "as", v |-> String] >>

SubscriptExprs ==
    { ConstNumber(2), ConstNumber(3), Id("n"),
      PostfixExpr(<<Identifier("a"), Dot, Identifier("b")>>),
      PostfixExpr(<<Identifier("a"), Arrow, Identifier("b")>>),
      LiteralString("z") }

Declarators == {Declarator("x", subs) : subs \in SeqsUpTo(SubscriptExprs, MaxSubscripts)}

Enumerators ==
    { Identifier("A"), Identifier("B"), Identifier("C"), LiteralString("A"),
      EnumeratorValue(Identifier("B"), 10), EnumeratorValue(LiteralString("B"), 5),
      EnumeratorRange(Identifier("R"), 10, 12), EnumeratorRange(Identifier("R"), 2, 1) }

EnumNodes ==
    { EnumNode(int_type, es) :
        int_type \in {"u8", "s", "nope"},
        es \in SeqsUpTo(Enumerators, MaxEnumerators) \ {<<>>} }

StringNodes ==
    { StringNode(PyNone), StringNode(ValueAssignment("encoding", Id("UTF8"))),
      StringNode(ValueAssignment("encoding", Id("latin1"))) }

EntryNodes ==
    {TypeAlias(t, "e") : t \in EnumNodes \cup StringNodes}
    \cup {TypeField(t, d) : t \in StringNodes, d \in Declarators}
    \cup {IdentifierField(t, d) : t \in {"int", "s", "nope"}, d \in Declarators}

InitEntry ==
    /\ pc = "entry"
    /\ exc = NoExc
    /\ objs = <<Doc, Struct>>
    /\ scope_stores = <<TopAliases, <<>> >>
    /\ doc = PyNone
    /\ made = {}
    /\ node \in EntryNodes
    /\ heap = <<>>

NextEntry ==
    \/ visit_TypeAlias
    \/ visit_TypeField
    \/ visit_IdentifierField

SpecEntry == InitEntry /\ [][NextEntry]_vars

(***************************************************************************)
(* SpecVariant: the visitor in the body of the top-level `struct S { ... }`*)
(* visits variant declarations and fields of variant type, entry after     *)
(* entry; at the end of the body the struct is popped and stored, the      *)
(* parse is over, and the consumer of the types applies one operation of   *)
(* tsdl.Variant to a variant the struct's fields give it.                  *)
(***************************************************************************)
MaxVariants == 3       \* Variant objects constructed or copied

VariantAddrs(hp) == {a \in DOMAIN hp : hp[a].cls = "Variant"}

OptionLists ==
    { << IdentifierField("int", Declarator("a", <<>>)) >>,
      << IdentifierField("int", Declarator("a", <<>>)),
         IdentifierField("s", Declarator("b", <<>>)) >>,
      << IdentifierField("int", Declarator("a", <<>>)),
         IdentifierField("nope", Declarator("b", <<>>)) >> }

TagExprs ==
    { Id("t"), PostfixExpr(<<Identifier("a"), Dot, Identifier("b")>>), ConstNumber(0) }

VariantFullNodes ==
    { VariantFull(name, tag, entries) :
        name \in {Identifier("N")}, tag \in {PyNone, Id("t")}, entries \in OptionLists }

VariantEntryNodes ==
    VariantFullNodes
    \cup {TypeField(t, Declarator("h", <<>>)) : t \in VariantFullNodes}
    \cup {TypeField(VariantRef("N", tag), Declarator(d, <<>>)) :
            tag \in TagExprs, d \in {"f", "g"}}
    \cup {TypeField(VariantRef("nope", Id("t")), Declarator("f", <<>>))}

InitVariant ==
    /\ pc = "entry"
    /\ exc = NoExc
    /\ objs = <<Doc, Struct>>
    /\ scope_stores = <<TopAliases, <<>> >>
    /\ doc = PyNone
    /\ made = {}
    /\ node \in VariantEntryNodes
    /\ heap = <<>>

\* for entry in node.entries: the next entry of the struct's body
_visit_scope_Next ==
    /\ pc = "visited"
    /\ Cardinality(VariantAddrs(heap)) < MaxVariants
    /\ node' \in VariantEntryNodes
    /\ pc' = "entry"
    /\ UNCHANGED <<exc, objs, scope_stores, doc, made, heap>>

\* the end of _struct_full_to_obj for the struct named S
visit_StructFull_Exit ==
    /\ pc = "visited"
    /\ objs' = _pop_obj(objs)
    /\ scope_stores' = _store(_pop_scope_store(scope_stores), "s", "S", _get_cur_obj)
    /\ pc' = "done"
    /\ UNCHANGED <<exc, doc, made, node, heap>>

\* the variants the fields of struct S refer to
FieldVariants ==
    LET fields == DictGet(scope_stores[1], "sS").fields IN
    {fields[i].v.addr : i \in DOMAIN fields}

DictDel(d, key) == SelectSeq(d, LAMBDA e : e.k # key)

\* variant.tag = value
Variant_tag ==
    /\ pc = "done"
    /\ \E variant \in FieldVariants, value \in {PyNone, PyList(<<"u">>)} :
           heap' = [heap EXCEPT ![variant]._tag = value]
    /\ pc' = "used"
    /\ UNCHANGED <<exc, objs, scope_stores, doc, made, node>>

\* variant.fields[key] = value
fields_setitem ==
    /\ pc = "done"
    /\ \E variant \in FieldVariants, key \in {PyStr("a"), PyStr("c")}, value \in {String} :
           heap' = [heap EXCEPT ![heap[variant]._fields].items = DictSet(@, key, value)]
    /\ pc' = "used"
    /\ UNCHANGED <<exc, objs, scope_stores, doc, made, node>>

\* del variant.fields[key]
fields_delitem ==
    /\ pc = "done"
    /\ \E variant \in FieldVariants, key \in {PyStr("a"), PyStr("b")} :
           /\ DictHas(heap[heap[variant]._fields].items, key)
           /\ heap' = [heap EXCEPT ![heap[variant]._fields].items = DictDel(@, key)]
    /\ pc' = "used"
    /\ UNCHANGED <<exc, objs, scope_stores, doc, made, node>>

NextVariant ==
    \/ visit_VariantFull
    \/ visit_TypeField
    \/ _visit_scope_Next
    \/ visit_StructFull_Exit
    \/ Variant_tag
    \/ fields_setitem
    \/ fields_delitem

SpecVariant == InitVariant /\ [][NextVariant]_vars

(***************************************************************************)
(* SpecAgain: a caller that calls Parser.parse several times, each time on *)
(* one of a few sources.  The entries of a source are visited in order,    *)
(* each by its whole handler; the caller keeps what each call gave it.     *)
(***************************************************************************)
MaxCalls == 3          \* calls of Parser.parse

ClockNode(entries) == [node |-> "Clock", entries |-> entries]
StreamNode(entries) == [node |-> "Stream", entries |-> entries]

\*   typealias string := s;
\*   variant N { s a; };
\*   variant M { nope b; };
\*   clock { name = a; freq = 1; };
\*   stream { };
AliasS == TypeAlias(StringNode(PyNone), "s")
VariantN == VariantFull(Identifier("N"), PyNone, <<IdentifierField("s", Declarator("a", <<>>))>>)
VariantM == VariantFull(Identifier("M"), PyNone, <<IdentifierField("nope", Declarator("b", <<>>))>>)
ClockA == ClockNode(<<ValueAssignment("name", Id("a")), ValueAssignment("freq", ConstNumber(1))>>)
Stream0 == StreamNode(<<>>)

Sources ==
    { <<VariantN, ClockA, Stream0>>,
      <<AliasS, VariantM>>,
      <<AliasS, VariantN, ClockA, Stream0>>,
      <<ClockA, Stream0>>,
      <<ClockA, ClockA>> }

\* the call of Parser.parse in progress
Call == made[Len(made)]

\* _reset_state that keeps the stacks as the earlier call left them
_reset_state_Keep(os, ss) == [objs |-> os, stores |-> ss]

\* self._objs = []; self._scope_stores = []
_reset_state(os, ss) == [objs |-> <<>>, stores |-> <<>>]

\* parse(tsdl) up to the loop of visit_Top: a new visitor, whose state is reset,
\* then the Doc and the top-level scope store are pushed
Parser_parse ==
    /\ pc = "call"
    /\ Len(made) < MaxCalls
    /\ \E tsdl \in Sources :
         made' = Append(made, [src |-> tsdl, n |-> 0, returned |-> FALSE,
                               exc |-> NoExc, doc |-> PyNone])
    /\ LET Push(state) ==
               /\ objs' = _push_obj(state.objs, Doc)
               /\ scope_stores' = _push_scope_store(state.stores)
       IN  Push(_reset_state(objs, scope_stores))
    /\ exc' = NoExc
    /\ doc' = PyNone
    /\ pc' = "visited"
    /\ UNCHANGED <<node, heap>>

\* for entry in node.entries: the next entry of the source
visit_Top_Next ==
    /\ pc = "visited"
    /\ Call.n < Len(Call.src)
    /\ node' = Call.src[Call.n + 1]
    /\ made' = [made EXCEPT ![Len(made)].n = @ + 1]
    /\ pc' = "entry"
    /\ UNCHANGED <<exc, objs, scope_stores, doc, heap>>

\* the loop of _visit_scope over the assignments of a block: the exception raised
\* if any, and the block's object as the loop leaves it
RECURSIVE VisitAssignments(_, _, _)
VisitAssignments(obj, entries, i) ==
    IF i > Len(entries) THEN Ok(obj)
    ELSE LET Assigned(r) ==
                 IF r.exc # NoExc THEN [exc |-> r.exc, obj |-> obj]
                 ELSE VisitAssignments(r.obj, entries, i + 1)
         IN  Assigned(_value_assignment_map(obj, entries[i].key.value.s, entries[i].value))

\* the handler of a block whose entries are assignments: an exception in the
\* block leaves the block's object and scope store on the stacks
VisitBlock(obj, Register(_, _)) ==
    LET Registered(r) ==
            IF r.exc # NoExc
            THEN Raised(r.exc) /\ UNCHANGED <<objs, scope_stores>>
            ELSE /\ objs' = [objs EXCEPT ![Len(objs)] = r.obj]
                 /\ pc' = "visited"
                 /\ UNCHANGED <<exc, scope_stores>>
        Visited(r) ==
            IF r.exc # NoExc
            THEN /\ Raised(r.exc)
                 /\ objs' = _push_obj(objs, r.obj)
                 /\ scope_stores' = _push_scope_store(scope_stores)
            ELSE Registered(Register(_get_cur_obj, r.obj))
    IN  Visited(VisitAssignments(obj, node.entries, 1))

visit_Clock ==
    /\ pc = "entry"
    /\ node.node = "Clock"
    /\ VisitBlock(Clock, visit_Clock_Register)
    /\ UNCHANGED <<doc, made, node, heap>>

visit_Stream ==
    /\ pc = "entry"
    /\ node.node = "Stream"
    /\ VisitBlock(Stream, visit_Stream_Register)
    /\ UNCHANGED <<doc, made, node, heap>>

\* the rest of visit_Top and of parse: the Doc is popped, kept as _doc and checked,
\* and parse returns it or the check's exception reaches the caller
visit_Top_Return ==
    /\ pc = "visited"
    /\ Call.n = Len(Call.src)
    /\ scope_stores' = _pop_scope_store(scope_stores)
    /\ objs' = _pop_obj(objs)
    /\ LET Checked(r) ==
               /\ doc' = r.obj
               /\ exc' = r.exc
               /\ made' = [made EXCEPT ![Len(made)].returned = TRUE,
                                       ![Len(made)].exc = r.exc,
                                       ![Len(made)].doc =
                                           IF r.exc # NoExc THEN PyNone ELSE r.obj]
       IN  Checked(visit_Top_Check(_get_cur_obj))
    /\ pc' = "call"
    /\ UNCHANGED <<node, heap>>

\* the exception of an entry reaches the caller of parse
Parser_parse_Raise ==
    /\ pc = "raised"
    /\ made' = [made EXCEPT ![Len(made)].returned = TRUE, ![Len(made)].exc = exc]
    /\ pc' = "call"
    /\ UNCHANGED <<exc, objs, scope_stores, doc, node, heap>>

InitAgain ==
    /\ pc = "call"
    /\ exc = NoExc
    /\ objs = <<>>
    /\ scope_stores = <<>>
    /\ doc = PyNone
    /\ made = <<>>
    /\ node = PyNone
    /\ heap = <<>>

NextAgain ==
    \/ Parser_parse
    \/ visit_Top_Next
    \/ visit_TypeAlias
    \/ visit_VariantFull
    \/ visit_Clock
    \/ visit_Stream
    \/ visit_Top_Return
    \/ Parser_parse_Raise

SpecAgain == InitAgain /\ [][NextAgain]_vars

(***************************************************************************)
(* SpecScopes: the visitor at the top level visits type aliases and        *)
(* structs, whose bodies hold type aliases, fields and structs in turn:    *)
(* each body is a scope with its own scope store.  _struct_full_to_obj is  *)
(* split at the loop of _visit_scope, as the handlers of the blocks are.   *)
(***************************************************************************)
MaxStructs == 2        \* Struct objects constructed

\* the entries of the top level:
\*   typealias string := s;  typealias enum : s { A } := e;  struct ... { ... };
TopEntryNodes ==
    { TypeAlias(StringNode(PyNone), "s"),
      TypeAlias(EnumNode("s", <<Identifier("A")>>), "e"),
      StructFull(PyNone) }

\* the entries of a struct's body:
\*   typealias string { encoding = UTF8; } := s;  s x;  struct S x;  struct ... { ... };
BodyEntryNodes ==
    { TypeAlias(StringNode(ValueAssignment("encoding", Id("UTF8"))), "s"),
      IdentifierField("s", Declarator("x", <<>>)),
      TypeField(StructRef("S"), Declarator("x", <<>>)),
      StructFull(PyNone) }

\* the entries of the scope the visitor is in
ScopeEntryNodes == IF Len(objs) = 1 THEN TopEntryNodes ELSE BodyEntryNodes

\* for entry in node.entries: the next entry of the scope
_visit_scope_Entry ==
    /\ pc = "visited"
    /\ node' \in ScopeEntryNodes
    /\ pc' = "entry"
    /\ UNCHANGED <<exc, objs, scope_stores, doc, made, heap>>

\* visit_StructFull up to the loop of _visit_scope: the Struct and its scope store
\* are pushed
_struct_full_to_obj_Enter ==
    /\ pc = "entry"
    /\ node.node = "StructFull"
    /\ Cardinality(made) < MaxStructs
    /\ made' = made \cup {Cardinality(made) + 1}
    /\ objs' = _push_obj(objs, Struct)
    /\ scope_stores' = _push_scope_store(scope_stores)
    /\ pc' = "visited"
    /\ UNCHANGED <<exc, doc, node, heap>>

\* the rest of _struct_full_to_obj: the scope store and the Struct are popped, and
\* the struct is stored if the node has a name (t.name, drawn here where it is read)
_struct_full_to_obj_Exit ==
    /\ pc = "visited"
    /\ Len(objs) > 1
    /\ \E name \in {PyNone, Identifier("S")} :
         scope_stores' =
             IF name # PyNone
             THEN _store_struct(_pop_scope_store(scope_stores), name.value.s, _get_cur_obj)
             ELSE _pop_scope_store(scope_stores)
    /\ objs' = _pop_obj(objs)
    /\ UNCHANGED <<pc, exc, doc, made, node, heap>>

InitScopes ==
    /\ pc = "visited"
    /\ exc = NoExc
    /\ objs = <<Doc>>
    /\ scope_stores = << <<>> >>
    /\ doc = PyNone
    /\ made = {}
    /\ node = PyNone
    /\ heap = <<>>

NextScopes ==
    \/ _visit_scope_Entry
    \/ visit_TypeAlias
    \/ visit_IdentifierField
    \/ visit_TypeField
    \/ _struct_full_to_obj_Enter
    \/ _struct_full_to_obj_Exit

SpecScopes == InitScopes /\ [][NextScopes]_vars

(***************************************************************************)
(* SpecRoots: the type assignments of trace and stream blocks.  The        *)
(* visitor is at the top level after                                       *)
(*   typealias integer { size = 32; } := int;  struct S { int a; };        *)
(*   clock { name = a; freq = 1; };                                        *)
(* and visits trace and stream blocks whose entries are value assignments  *)
(* and type assignments.                                                   *)
(***************************************************************************)
TypeAssignment(key, type) == [node |-> "TypeAssignment", key |-> key, type |-> type]

\* '.'.join(key)
RECURSIVE Join(_, _)
Join(key, i) ==
    IF i > Len(key) THEN ""
    ELSE IF i = Len(key) THEN key[i]
    ELSE key[i] \o "." \o Join(key, i + 1)

_type_assign_trace(os, ss, hp, trace, key, type) ==
    LET Assign(r) == Res(r.exc, [trace EXCEPT !.packet_header = r.obj], r.objs, r.stores, r.heap)
    IN  IF key = "packet.header" THEN Assign(_type_to_obj(os, ss, hp, type))
        ELSE Res(NoExc, trace, os, ss, hp)

_type_assign_stream(os, ss, hp, stream, key, type) ==
    LET Header(r) == Res(r.exc, [stream EXCEPT !.event_header = r.obj], r.objs, r.stores, r.heap)
        Context(r) == Res(r.exc, [stream EXCEPT !.event_context = r.obj], r.objs, r.stores, r.heap)
        Packet(r) == Res(r.exc, [stream EXCEPT !.packet_context = r.obj], r.objs, r.stores, r.heap)
    IN  IF key = "event.header" THEN Header(_type_to_obj(os, ss, hp, type))
        ELSE IF key = "event.context" THEN Context(_type_to_obj(os, ss, hp, type))
        ELSE IF key = "packet.context" THEN Packet(_type_to_obj(os, ss, hp, type))
        ELSE Res(NoExc, stream, os, ss, hp)

_type_assign_event(os, ss, hp, event, key, type) ==
    LET Fields(r) == Res(r.exc, [event EXCEPT !.fields = r.obj], r.objs, r.stores, r.heap)
        Context(r) == Res(r.exc, [event EXCEPT !.context = r.obj], r.objs, r.stores, r.heap)
    IN  IF key = "fields" THEN Fields(_type_to_obj(os, ss, hp, type))
        ELSE IF key = "context" THEN Context(_type_to_obj(os, ss, hp, type))
        ELSE Res(NoExc, event, os, ss, hp)

\* self._type_assignment_map[type(obj)](key, node.type)
_type_assignment_map(os, ss, hp, obj, key, type) ==
    CASE obj.cls = "Trace" -> _type_assign_trace(os, ss, hp, obj, key, type)
      [] obj.cls = "Stream" -> _type_assign_stream(os, ss, hp, obj, key, type)
      [] obj.cls = "Event" -> _type_assign_event(os, ss, hp, obj, key, type)
      [] OTHER -> Res(Raise("KeyError", "no type assignment for this parent").exc,
                      obj, os, ss, hp)

\* the handler on the entry `key := type;`
visit_TypeAssignment_Node(t) ==
    LET Assigned(r) ==
            IF r.exc # NoExc
            THEN Raised(r.exc) /\ objs' = r.objs
            ELSE /\ objs' = [r.objs EXCEPT ![Len(r.objs)] = r.obj]
                 /\ UNCHANGED <<pc, exc>>
        Decoded(key) ==
            IF key.exc # NoExc THEN Raised(key.exc) /\ UNCHANGED objs
            ELSE Assigned(_type_assignment_map(objs, scope_stores, heap, _get_cur_obj,
                                               Join(key.obj, 1), t.type))
    IN  Decoded(_decode_unary(t.key))

RootKeys ==
    { PostfixExpr(<<Identifier("packet"), Dot, Identifier("header")>>),
      PostfixExpr(<<Identifier("packet"), Dot, Identifier("context")>>),
      PostfixExpr(<<Identifier("event"), Dot, Identifier("header")>>),
      PostfixExpr(<<Identifier("event"), Dot, Identifier("context")>>) }

RootTypes ==
    { StructRef("S"), StructRef("nope"), StringNode(PyNone),
      EnumNode("int", <<Identifier("A")>>) }

visit_TypeAssignment ==
    /\ pc = "block"
    /\ \E key \in RootKeys, type \in RootTypes :
           visit_TypeAssignment_Node(TypeAssignment(key, type))
    /\ UNCHANGED <<scope_stores, doc, made, node, heap>>

InitRoots ==
    /\ pc = "top"
    /\ exc = NoExc
    /\ objs = << [Doc EXCEPT !.clocks =
                     <<[k |-> PyStr("a"),
                        v |-> [Clock EXCEPT !.name = PyStr("a"), !.freq = PyInt(1)]]>>] >>
    /\ scope_stores =
           << << [k |-> "aint", v |-> [Integer EXCEPT !.size = PyInt(32)]],
                 [k |-> "sS", v |-> [Struct EXCEPT !.fields =
                        <<[k |-> PyStr("a"), v |-> [Integer EXCEPT !.size = PyInt(32)]]>>]] >> >>
    /\ doc = PyNone
    /\ made = {}
    /\ node = PyNone
    /\ heap = <<>>

NextRoots ==
    \/ visit_Trace_Enter
    \/ visit_Stream_Enter
    \/ visit_ValueAssignment_Attr
    \/ visit_TypeAssignment
    \/ visit_Trace_Exit
    \/ visit_Stream_Exit
    \/ visit_Top_Exit

SpecRoots == InitRoots /\ [][NextRoots]_vars

(***************************************************************************)
(* Properties of the document (Spec).                                      *)
(***************************************************************************)
EventsDistinct(events) ==
    \A i, j \in DOMAIN events :
        i # j => events[i].name # events[j].name /\ events[i].id # events[j].id

\* the Doc the parse has popped holds a stream with two events of one name or id
SomeStreamRepeats ==
    /\ doc # PyNone
    /\ \E i \in DOMAIN doc.streams : ~EventsDistinct(doc.streams[i].v.events)

\* C1: after a successful parse the events of every stream are pairwise distinct in
\* name and pairwise distinct in id, and a Doc in which a stream holds two events of
\* one name or of one id is never returned: visit_Top raises a ParseError instead.
C1_EventsDistinct ==
    /\ pc = "done" =>
         \A i \in DOMAIN doc.streams : EventsDistinct(doc.streams[i].v.events)
    /\ SomeStreamRepeats =>
         /\ pc = "raised"
         /\ exc.type = "ParseError"
         /\ exc.msg \in {"duplicate event", "no clocks defined"}

\* a successful parse with a stream of two events
C1_Witness ==
    /\ pc = "done"
    /\ \E i \in DOMAIN doc.streams : Len(doc.streams[i].v.events) >= 2

\* C2: after a successful parse doc.clocks and doc.streams are non-empty; "no clocks
\* defined" and "no streams defined" are raised only at the end of visit_Top, when
\* every entry has been visited and the stacks are popped, and they are raised
\* whenever the Doc then has no clock, or a clock and no stream.
C2_ClocksStreamsNonEmpty ==
    /\ pc = "done" => doc.clocks # <<>> /\ doc.streams # <<>>
    /\ exc.msg \in {"no clocks defined", "no streams defined"} =>
         /\ pc = "raised" /\ exc.type = "ParseError"
         /\ doc # PyNone /\ objs = <<>> /\ scope_stores = <<>>
    /\ (doc # PyNone /\ doc.clocks = <<>>) => exc.msg = "no clocks defined"
    /\ (doc # PyNone /\ doc.clocks # <<>> /\ doc.streams = <<>>) =>
         exc.msg = "no streams defined"

\* a parse that fails at the end for want of a stream, its clocks registered
C2_Witness ==
    /\ pc = "raised"
    /\ exc.msg = "no streams defined"
    /\ doc.clocks # <<>>

\* where in the Doc the Event object oid is held: (stream, position) pairs
Holders(d, oid) ==
    { p \in (DOMAIN d.streams) \X (1..Cardinality(made)) :
        /\ p[2] \in DOMAIN d.streams[p[1]].v.events
        /\ d.streams[p[1]].v.events[p[2]].oid = oid }

\* C3: after a successful parse every Event object constructed is held exactly once,
\* in the events of one stream, and that stream's id is the event's stream_id, or 0
\* when the event block assigned none.
C3_EventInItsStream ==
    pc = "done" =>
        \A oid \in made :
            /\ Cardinality(Holders(doc, oid)) = 1
            /\ \A p \in Holders(doc, oid) :
                 LET stream == doc.streams[p[1]].v
                     event == stream.events[p[2]]
                     sid == IF event.stream_id = PyNone THEN PyInt(0) ELSE event.stream_id
                 IN  stream.id = sid /\ doc.streams[p[1]].k = sid

\* a successful parse with an event without stream_id in stream 0 and an event with
\* stream_id 1 in stream 1
C3_Witness ==
    /\ pc = "done"
    /\ \E i, j \in DOMAIN doc.streams :
         /\ doc.streams[i].v.id = PyInt(0)
         /\ doc.streams[j].v.id = PyInt(1)
         /\ \E e \in DOMAIN doc.streams[i].v.events :
              doc.streams[i].v.events[e].stream_id = PyNone
         /\ \E e \in DOMAIN doc.streams[j].v.events :
              doc.streams[j].v.events[e].stream_id = PyInt(1)

(***************************************************************************)
(* Properties of fields and enums (SpecEntry).                             *)
(***************************************************************************)
FieldVisited == pc = "visited" /\ node.node \in {"TypeField", "IdentifierField"}

\* the type the visited field has in the struct being built
FieldType == DictGet(_get_cur_obj.fields, node.decl.name.value)

\* the base type of the visited field: what its alias or type constructor denotes
BaseType ==
    IF node.node = "IdentifierField"
    THEN _resolve_alias(scope_stores, node.type.value.s).obj
    ELSE _type_to_obj(objs, scope_stores, heap, node.type).obj

IsArraySequence(t) == t.cls \in {"Array", "Sequence"}

\* the identifier components of a dotted path
RECURSIVE PathComponents(_)
PathComponents(elems) ==
    IF elems = <<>> THEN <<>>
    ELSE IF Head(elems).node = "Identifier"
    THEN <<Head(elems).value.s>> \o PathComponents(Tail(elems))
    ELSE PathComponents(Tail(elems))

\* the node a subscript stands for, around element
SubscriptNode(subscript, element) ==
    IF subscript.node = "ConstNumber"
    THEN Array(subscript.value, element)
    ELSE Sequence(PathComponents(subscript.elems), element)

\* subscripts i.. applied outermost first around base
RECURSIVE OutermostFirst(_, _, _)
OutermostFirst(subscripts, i, base) ==
    IF i > Len(subscripts) THEN base
    ELSE SubscriptNode(subscripts[i], OutermostFirst(subscripts, i + 1, base))

\* C4: a field with subscripts [s0]...[sn-1] (n >= 1) over base B has the type
\* node(s0, node(s1, ... node(sn-1, B))): the first subscript outermost.
C4_OutermostFirst ==
    (FieldVisited /\ Len(node.decl.subscripts) >= 1) =>
        FieldType = OutermostFirst(node.decl.subscripts, 1, BaseType)

\* the Array/Sequence nodes of a type, outermost first
RECURSIVE Chain(_)
Chain(t) == IF IsArraySequence(t) THEN <<t>> \o Chain(t.element) ELSE <<>>

RECURSIVE Descend(_, _)
Descend(t, n) == IF n = 0 THEN t ELSE Descend(t.element, n - 1)

\* node n is the node of subscript s: an Array of length c for a constant c, a
\* Sequence whose length is the path's components for a dotted path
NodeOfSubscript(n, s) ==
    IF s.node = "ConstNumber"
    THEN n.cls = "Array" /\ n.length = s.value
    ELSE n.cls = "Sequence" /\ n.length = PathComponents(s.elems)

\* C5: a field with n subscripts over base B has type B when n = 0, and otherwise a
\* chain of exactly n Array/Sequence nodes over B, descending .element n times
\* yields B, and the nodes correspond one to one to the subscripts.
C5_ChainMatchesSubscripts ==
    FieldVisited =>
        LET subscripts == node.decl.subscripts
            n == Len(subscripts)
            chain == Chain(FieldType)
        IN  /\ n = 0 => FieldType = BaseType
            /\ Len(chain) = n
            /\ Descend(FieldType, n) = BaseType
            /\ \E p \in Permutations(1..n) :
                 \A i \in 1..n : NodeOfSubscript(chain[i], subscripts[p[i]])

\* a field with a constant and a path subscript has been visited
C5_Witness ==
    /\ FieldVisited
    /\ \E i, j \in DOMAIN node.decl.subscripts :
         /\ node.decl.subscripts[i].node = "ConstNumber"
         /\ node.decl.subscripts[j].node = "PostfixExpr"
         /\ Len(node.decl.subscripts[j].elems) = 3

EnumVisited == pc = "visited" /\ node.node = "TypeAlias" /\ node.type.node = "Enum"
EnumEntered == pc # "entry" /\ node.node = "TypeAlias" /\ node.type.node = "Enum"

\* the Enum the visited alias is bound to, in the store of the struct's body
EnumObj == DictGet(scope_stores[Len(scope_stores)], "a" \o node.name.value.s)

EnumeratorLabel(e) ==
    IF e.node \in {"Identifier", "LiteralString"} THEN e.value ELSE e.key.value

\* the range of the i-th enumerator by the reference rule, given the labels
ReferenceRange(es, i, labels) ==
    LET e == es[i]
        c == IF i = 1 THEN 0
             ELSE LET q == es[i - 1] IN
                  IF q.node \in {"Identifier", "LiteralString"}
                  THEN DictGet(labels, EnumeratorLabel(q))[1] + 1
                  ELSE IF q.node = "EnumeratorValue" THEN q.value + 1
                  ELSE q.high + 1
    IN  IF e.node \in {"Identifier", "LiteralString"} THEN <<c, c>>
        ELSE IF e.node = "EnumeratorValue" THEN <<e.value, e.value>>
        ELSE <<e.low, e.high>>

\* C6: every enumerator has the range of the reference rule: a bare label (c, c)
\* with c = 0 first, else one more than the previous enumerator's value or high.
C6_ReferenceNumbering ==
    EnumVisited =>
        \A i \in DOMAIN node.type.enumerators :
            DictGet(EnumObj.labels, EnumeratorLabel(node.type.enumerators[i]))
                = ReferenceRange(node.type.enumerators, i, EnumObj.labels)

\* C7: the integer of every materialized Enum is an Integer.
C7_EnumIntegerIsInteger ==
    EnumVisited => EnumObj.integer.cls = "Integer"

RepeatsLabel(es) ==
    \E i, j \in DOMAIN es : i # j /\ EnumeratorLabel(es[i]) = EnumeratorLabel(es[j])
HasBadRange(es) ==
    \E i \in DOMAIN es : es[i].node = "EnumeratorRange" /\ es[i].low > es[i].high

\* C8: a materialized Enum has one label per enumerator, in order and under the
\* enumerator's own label (none repeated, none overwritten), every range has
\* low <= high, and the range of a `label = v` or `label = low ... high`
\* enumerator is the one written; a list that repeats a label (in either form)
\* or has a range with low > high is not materialized: a ParseError is raised.
C8_LabelsWellFormed ==
    /\ EnumVisited =>
         LET es == node.type.enumerators
             labels == EnumObj.labels
         IN  /\ Len(labels) = Len(es)
             /\ \A i \in DOMAIN es :
                  /\ labels[i].k = EnumeratorLabel(es[i])
                  /\ labels[i].v[1] <= labels[i].v[2]
                  /\ es[i].node = "EnumeratorValue" => labels[i].v = <<es[i].value, es[i].value>>
                  /\ es[i].node = "EnumeratorRange" => labels[i].v = <<es[i].low, es[i].high>>
             /\ \A i, j \in DOMAIN labels : i # j => labels[i].k # labels[j].k
    /\ (EnumEntered /\ (RepeatsLabel(node.type.enumerators) \/ HasBadRange(node.type.enumerators))) =>
         /\ pc = "raised"
         /\ exc.type = "ParseError"
         /\ exc.msg \in {"duplicate enum label", "invalid enum range", "cannot resolve alias"}

\* an Enum of four labels, one of them a range, has been materialized
C8_Witness ==
    /\ EnumVisited
    /\ Len(EnumObj.labels) = 4
    /\ \E i \in DOMAIN EnumObj.labels : EnumObj.labels[i].v[1] < EnumObj.labels[i].v[2]

(***************************************************************************)
(* Properties of variant references (SpecVariant).                         *)
(***************************************************************************)
\* the entry being visited is a field whose type is a variant reference
RefEntered == node.node = "TypeField" /\ node.type.node = "VariantRef"

\* the named template: what the name N is bound to on the scope stack
Template == _resolve_variant(scope_stores, "N").obj.addr

\* C9: every reference to a named variant is a Variant object of its own that
\* carries the tag path of the reference; materializing it changes the tag of no
\* Variant that existed before, the named template included, whatever the order
\* of references; and assigning the tag of one Variant changes the tag of no other.
C9_OwnTag ==
    [][ /\ pc = "entry" =>
             \A a \in VariantAddrs(heap) : heap'[a]._tag = heap[a]._tag
        /\ (pc = "entry" /\ pc' = "visited" /\ RefEntered) =>
             LET ref == DictGet(objs'[Len(objs')].fields, node.decl.name.value).addr IN
             /\ ref \notin DOMAIN heap
             /\ heap'[ref]._tag = PyList(PathComponents(node.type.tag.elems))
        /\ pc = "done" =>
             \A a, b \in VariantAddrs(heap) :
                 (heap'[a]._tag # heap[a]._tag /\ heap'[b]._tag # heap[b]._tag) => a = b
      ]_vars

\* two references to N with different tags have been materialized as the fields f
\* and g, and the template's tag is unset
C9_Witness ==
    /\ pc = "visited"
    /\ LET fields == _get_cur_obj.fields IN
       /\ DictHas(fields, PyStr("f"))
       /\ DictHas(fields, PyStr("g"))
       /\ LET f == DictGet(fields, PyStr("f")).addr
              g == DictGet(fields, PyStr("g")).addr
          IN  /\ f # g /\ f # Template /\ g # Template
              /\ heap[f]._tag = PyList(<<"a", "b">>)
              /\ heap[g]._tag = PyList(<<"t">>)
              /\ heap[Template]._tag = PyNone

\* the options seen through a variant: the items of its fields table
Options(hp, a) == hp[hp[a]._fields].items

\* C10: the option lists of distinct Variant objects (references to one named
\* variant, and its template) are independent: no step changes the options seen
\* through two of them.
C10_OwnOptions ==
    [][ \A a, b \in VariantAddrs(heap) :
            (Options(heap', a) # Options(heap, a) /\ Options(heap', b) # Options(heap, b))
                => a = b
      ]_vars

(***************************************************************************)
(* Properties of attributes and errors (SpecTypes, Spec).                  *)
(***************************************************************************)
\* the Doc being built, or the Doc the parse has popped
Docs == IF objs # <<>> THEN {objs[1]} ELSE IF doc # PyNone THEN {doc} ELSE {}

\* the required attributes of an object are set
HasRequired(obj) ==
    CASE obj.cls = "Integer" -> obj.size # PyNone
      [] obj.cls = "FloatingPoint" -> obj.exp_dig # PyNone /\ obj.mant_dig # PyNone
      [] obj.cls = "Trace" -> obj.major # PyNone /\ obj.minor # PyNone
      [] obj.cls = "Clock" -> obj.name # PyNone /\ obj.freq # PyNone
      [] obj.cls = "Event" -> obj.id # PyNone /\ obj.name # PyNone
      [] OTHER -> TRUE

\* every object registered in the Doc or bound to an alias has its required attributes
AllRequired ==
    /\ \A d \in Docs :
         /\ d.trace # PyNone => HasRequired(d.trace)
         /\ \A i \in DOMAIN d.clocks : HasRequired(d.clocks[i].v)
         /\ \A i \in DOMAIN d.streams :
              \A j \in DOMAIN d.streams[i].v.events : HasRequired(d.streams[i].v.events[j])
    /\ \A i \in DOMAIN scope_stores :
         \A j \in DOMAIN scope_stores[i] : HasRequired(scope_stores[i][j].v)

MissingRequired ==
    { "integer missing size", "floating point missing exponent digits",
      "floating point missing mantissa digits", "trace block is missing major version",
      "trace block is missing minor version", "clock block is missing name",
      "clock block is missing frequency", "event is missing ID", "event is missing name" }

\* the step closes the current block or type constructor: its object is popped
Closing == pc = "block" /\ Len(objs') = Len(objs) - 1

\* C11: every Integer, FloatingPoint, Trace, Clock and Event that is registered in
\* the Doc or bound to an alias, hence every one of a successful parse, has its
\* required attributes set, and closing a block or type constructor that lacks one
\* raises the ParseError that names the missing attribute.
C11_RequiredSet ==
    [][ /\ AllRequired'
        /\ (Closing /\ ~HasRequired(_get_cur_obj)) =>
             /\ pc' = "raised"
             /\ exc'.type = "ParseError"
             /\ exc'.msg \in MissingRequired
      ]_vars

\* a successful parse with a trace, a clock and an event
C11_Witness ==
    /\ pc = "done"
    /\ doc.trace # PyNone
    /\ doc.clocks # <<>>
    /\ \E i \in DOMAIN doc.streams : doc.streams[i].v.events # <<>>

\* C12: every error of a parse surfaces as a ParseError: whenever the visit has
\* stopped on an exception, the exception is a ParseError.
C12_OnlyParseError == pc = "raised" => exc.type = "ParseError"

\* what Parser.parse returns: the Doc when the visit ended, nothing when it raised
Returned == IF pc = "done" THEN doc ELSE PyNone

\* C13: the parse is fail-fast: no step of the visit is taken once an exception
\* is raised, the raising step registers nothing in the Doc, and a parse that
\* raised returns no Doc, complete or partial.
C13_FailFast ==
    [][ /\ exc = NoExc
        /\ exc' # NoExc =>
             /\ pc' = "raised"
             /\ Returned' = PyNone
             /\ objs' # <<>> => objs'[1] = objs[1]
        /\ pc' = "done" => exc' = NoExc
      ]_vars

\* the visit has stopped on an error after a clock was registered in the Doc
C13_Witness ==
    /\ pc = "raised"
    /\ exc # NoExc
    /\ objs # <<>>
    /\ objs[1].clocks # <<>>

(***************************************************************************)
(* Properties of repeated calls (SpecAgain).                               *)
(***************************************************************************)
\* C14: parsing carries no state between calls: every call starts its visit with
\* only its own Doc and one empty scope store on the stacks, whatever the earlier
\* calls left (so no binding of an earlier parse is resolvable), and any two
\* finished calls on the same source raised the same exception or returned equal
\* Docs.
C14_SameSourceSameOutcome ==
    /\ (pc = "visited" /\ Call.n = 0) => objs = <<Doc>> /\ scope_stores = << <<>> >>
    /\ \A i, j \in DOMAIN made :
         (made[i].returned /\ made[j].returned /\ made[i].src = made[j].src) =>
             made[i].exc = made[j].exc /\ made[i].doc = made[j].doc

\* a source was parsed twice, both calls returned a Doc, and between them the parse
\* of another source raised in a variant's body, below a scope store with a binding
C14_Witness ==
    /\ Len(made) = 3
    /\ \A i \in 1..3 : made[i].returned
    /\ made[1].src = made[3].src
    /\ made[1].doc # PyNone
    /\ made[2].src = <<AliasS, VariantM>>
    /\ made[2].exc # NoExc

(***************************************************************************)
(* Properties of the registration of clocks, streams and events (Spec).    *)
(***************************************************************************)
\* the step ends the block of the class: the block's object is popped
Closes(cls) == Closing /\ _get_cur_obj.cls = cls

\* the clocks and streams registered in the Doc on the stack stay as they are, but
\* for the events appended to a stream
Kept ==
    (objs # <<>> /\ objs' # <<>>) =>
        /\ \A i \in DOMAIN objs[1].clocks :
             i \in DOMAIN objs'[1].clocks /\ objs'[1].clocks[i] = objs[1].clocks[i]
        /\ \A i \in DOMAIN objs[1].streams :
             /\ i \in DOMAIN objs'[1].streams
             /\ objs'[1].streams[i].k = objs[1].streams[i].k
             /\ [objs'[1].streams[i].v EXCEPT !.events = <<>>] =
                    [objs[1].streams[i].v EXCEPT !.events = <<>>]
             /\ \A j \in DOMAIN objs[1].streams[i].v.events :
                  /\ j \in DOMAIN objs'[1].streams[i].v.events
                  /\ objs'[1].streams[i].v.events[j] = objs[1].streams[i].v.events[j]

\* C15: the end of a clock block whose name is that of a registered clock, and the
\* end of a stream block whose id (0 when it assigns none) is that of a registered
\* stream, raise the duplicate ParseError, and no step replaces a registered clock
\* or stream.
C15_UniqueKeys ==
    [][ /\ (/\ Closes("Clock")
            /\ _get_cur_obj.name # PyNone
            /\ _get_cur_obj.freq # PyNone
            /\ DictHas(CurDoc.clocks, _get_cur_obj.name)) =>
               pc' = "raised" /\ exc' = ParseError("duplicate clock").exc
        /\ (Closes("Stream") /\ DictHas(CurDoc.streams, _get_cur_obj.id)) =>
               pc' = "raised" /\ exc' = ParseError("duplicate stream").exc
        /\ Kept
      ]_vars

\* a second clock block of the same name has raised, the first clock is registered
C15_Witness ==
    /\ pc = "raised"
    /\ exc = ParseError("duplicate clock").exc
    /\ objs # <<>>
    /\ objs[1].clocks # <<>>
    /\ objs[1].streams # <<>>

\* the events of all the streams of a Doc
AllEvents(d) ==
    UNION { {d.streams[i].v.events[j] : j \in DOMAIN d.streams[i].v.events} :
              i \in DOMAIN d.streams }

\* C16: the end of an event block whose stream_id (0 when it assigns none) is the
\* id of no registered stream raises the ParseError of the unknown stream, and the
\* event is appended to no stream: the Doc is left as it was.
C16_UnknownStream ==
    [][ (/\ Closes("Event")
         /\ _get_cur_obj.id # PyNone
         /\ _get_cur_obj.name # PyNone
         /\ LET sid == IF _get_cur_obj.stream_id # PyNone
                       THEN _get_cur_obj.stream_id ELSE PyInt(0)
            IN  \A i \in DOMAIN CurDoc.streams : CurDoc.streams[i].v.id # sid) =>
            /\ pc' = "raised"
            /\ exc' = ParseError("stream not found for event").exc
            /\ objs'[1] = objs[1]
            /\ _get_cur_obj \notin AllEvents(objs'[1])
      ]_vars

\* an event block has raised for its stream while another stream is registered
C16_Witness ==
    /\ pc = "raised"
    /\ exc = ParseError("stream not found for event").exc
    /\ objs[1].streams # <<>>

(***************************************************************************)
(* Properties of the scopes (SpecScopes).                                  *)
(***************************************************************************)
\* the binding of the key in the innermost of the first i scope stores that has it,
\* None if none has it
RECURSIVE Innermost(_, _, _)
Innermost(stores, key, i) ==
    IF i = 0 THEN PyNone
    ELSE IF DictHas(stores[i], key) THEN DictGet(stores[i], key)
    ELSE Innermost(stores, key, i - 1)

\* the step resolves the name in the namespace of the prefix for the field of the
\* entry: the field gets the innermost binding, or the step raises
ResolvesInnermost(prefix, name, error) ==
    LET found == Innermost(scope_stores, prefix \o name, Len(scope_stores)) IN
    IF found # PyNone
    THEN /\ pc' = "visited"
         /\ DictGet(objs'[Len(objs')].fields, node.decl.name.value) = found
    ELSE /\ pc' = "raised"
         /\ exc' = ParseError(error).exc

\* C17: a field whose type is an alias name or a struct reference, and an enum
\* whose integer type is an alias name, get the binding of the innermost scope
\* store on the stack that binds the name in its namespace, and the parse fails
\* with the unresolved alias or struct error when none does; the scope stores on
\* the stack are those of the scopes being visited, and leaving a scope drops its
\* store and leaves those of the outer scopes as they were but for the struct it
\* declared.
C17_InnermostWins ==
    [][ /\ (pc = "entry" /\ node.node = "IdentifierField") =>
               ResolvesInnermost("a", node.type.value.s, "cannot resolve alias")
        /\ (pc = "entry" /\ node.node = "TypeField" /\ node.type.node = "StructRef") =>
               ResolvesInnermost("s", node.type.value.value.s, "cannot resolve struct")
        /\ (pc = "entry" /\ node.node = "TypeAlias" /\ node.type.node = "Enum") =>
               LET found == Innermost(scope_stores, "a" \o node.type.int_type.value.s,
                                      Len(scope_stores))
               IN  IF found # PyNone
                   THEN /\ pc' = "visited"
                        /\ DictGet(scope_stores'[Len(scope_stores')],
                                   "a" \o node.name.value.s).integer = found
                   ELSE /\ pc' = "raised"
                        /\ exc' = ParseError("cannot resolve alias").exc
        /\ Len(scope_stores') = Len(objs')
        /\ Len(objs') < Len(objs) =>
             /\ Len(scope_stores') = Len(scope_stores) - 1
             /\ \A i \in 1..(Len(scope_stores') - 1) : scope_stores'[i] = scope_stores[i]
             /\ \A j \in DOMAIN scope_stores[Len(scope_stores')] :
                  scope_stores[Len(scope_stores')][j].k # "sS" =>
                      scope_stores'[Len(scope_stores')][j] = scope_stores[Len(scope_stores')][j]
      ]_vars

\* at the top level, in the order of the top-level scope store: the alias s was
\* bound to the plain string; the struct S, whose own alias s is the UTF8 string,
\* got that one for its field x; and after it the enum e of integer type s got the
\* plain string of the top-level alias again
C17_Witness ==
    /\ pc = "visited"
    /\ Len(objs) = 1
    /\ Len(scope_stores[1]) = 3
    /\ scope_stores[1][1] = [k |-> "as", v |-> String]
    /\ scope_stores[1][2].k = "sS"
    /\ scope_stores[1][2].v.fields =
           <<[k |-> PyStr("x"), v |-> [String EXCEPT !.encoding = EncodingUTF8]]>>
    /\ scope_stores[1][3].k = "ae"
    /\ scope_stores[1][3].v.integer = String

(***************************************************************************)
(* Properties of the value assignments (SpecTypes).                        *)
(***************************************************************************)
\* the step is the assignment `key = value;` in a block of the class
Assigns(cls, key, value) ==
    /\ pc = "block"
    /\ _get_cur_obj.cls = cls
    /\ Assignment(key, value)

\* C18: the assignment of an event's name stores the name, be it written as the
\* identifier foo or as the literal string "foo": after it the Event's name is foo.
C18_EventNameStored ==
    [][ \A value \in {Id("foo"), LiteralString("foo")} :
            Assigns("Event", "name", value) =>
                /\ pc' = "block"
                /\ objs'[Len(objs')].name = PyStr("foo")
      ]_vars

\* C19: in a floating_point block the assignment of byte_order to le, be, network
\* or native sets the FloatingPoint's byte_order to LE, BE, BE or NATIVE, and the
\* visit goes on to materialize the type.
C19_FloatByteOrder ==
    [][ \A bo \in {"le", "be", "network", "native"} :
            Assigns("FloatingPoint", "byte_order", Id(bo)) =>
                /\ pc' = "block"
                /\ objs'[Len(objs')].byte_order =
                       CASE bo = "le" -> ByteOrderLE
                         [] bo = "native" -> ByteOrderNATIVE
                         [] OTHER -> ByteOrderBE
      ]_vars

\* C20: the assignment of a clock's absolute accepts true, false, 1 and 0 and stores
\* the boolean: true for true and 1, false for false and 0.
C20_ClockAbsolute ==
    [][ \A value \in {Id("true"), Id("false"), ConstNumber(1), ConstNumber(0)} :
            Assigns("Clock", "absolute", value) =>
                /\ pc' = "block"
                /\ objs'[Len(objs')].absolute =
                       PyBool(value \in {Id("true"), ConstNumber(1)})
      ]_vars

\* the Integer types bound to an alias on the scope stack
BoundIntegers ==
    UNION { {scope_stores[i][j].v : j \in DOMAIN scope_stores[i]} : i \in DOMAIN scope_stores }

\* C21: every Integer that is materialized has a base that is one of 2, 8, 10, 16.
C21_BaseIsValid ==
    \A integer \in BoundIntegers :
        integer.cls = "Integer" => integer.base \in {PyInt(2), PyInt(8), PyInt(10), PyInt(16)}

(***************************************************************************)
(* Properties of the variants declared in full (SpecVariant).              *)
(***************************************************************************)
\* C22: a variant declared in full with a tag has the list of the identifiers of
\* the tag path as its tag: once the declaration `variant N <t> { ... }` is
\* visited, the tag of the Variant stored as N is [t].
C22_FullVariantKeepsTag ==
    (pc = "visited" /\ node.node = "VariantFull" /\ node.tag # PyNone) =>
        heap[DictGet(scope_stores[Len(scope_stores)], "v" \o node.name.value.s).addr]._tag =
            PyList(_decode_unary(node.tag).obj)

(***************************************************************************)
(* Properties of the scope-root types (SpecRoots).                         *)
(***************************************************************************)
IsUnsetOrStruct(t) == t = PyNone \/ t.cls = "Struct"

\* C23: the Doc of a successful parse holds only structures as scope-root types:
\* the trace's packet_header and each stream's packet_context, event_header and
\* event_context are unset or a Struct.
C23_RootsAreStructs ==
    pc = "done" =>
        /\ doc.trace # PyNone => IsUnsetOrStruct(doc.trace.packet_header)
        /\ \A i \in DOMAIN doc.streams :
             /\ IsUnsetOrStruct(doc.streams[i].v.packet_context)
             /\ IsUnsetOrStruct(doc.streams[i].v.event_header)
             /\ IsUnsetOrStruct(doc.streams[i].v.event_context)

(***************************************************************************)
(* SpecTokens: Identifier.grammar applied to a token.  The parser is at a  *)
(* position whose grammar is Identifier and the text that remains is the   *)
(* token; `made` keeps the token, `node` receives the Identifier node.     *)
(***************************************************************************)
IsIdStart(c) ==
    LET cs == "ABCDEFGHIJKLMNOPQRSTUVWXYZabcdefghijklmnopqrstuvwxyz_"
    IN  \E i \in 1..Len(cs) : SubSeq(cs, i, i) = c

IsIdChar(c) ==
    LET ds == "0123456789"
    IN  IsIdStart(c) \/ \E i \in 1..Len(ds) : SubSeq(ds, i, i) = c

\* the length of the longest prefix of s matched by [A-Za-z_0-9]*
RECURSIVE IdCharsLen(_)
IdCharsLen(s) ==
    IF s # "" /\ IsIdChar(SubSeq(s, 1, 1)) THEN 1 + IdCharsLen(Tail(s)) ELSE 0

ReservedWords ==
    {"struct", "variant", "enum", "integer", "floating_point", "string", "typealias"}

\* Identifier.grammar.match(text): the negative lookahead refuses a text that
\* starts with a reserved word, then one start character and the longest run of
\* identifier characters are consumed; the result is the matched text or None
Identifier_grammar_match(text) ==
    IF \E w \in ReservedWords : StartsWith(text, w) THEN PyNone
    ELSE IF text = "" \/ ~IsIdStart(SubSeq(text, 1, 1)) THEN PyNone
    ELSE PyStr(SubSeq(text, 1, 1 + IdCharsLen(Tail(text))))

TokenHeads ==
    ReservedWords \cup {"hello", "_field_name", "Bob42", "str", "Struct", "x", "9", "enu", ""}

TokenTails == {"", "_len", "ure", "_value", "_part", "s", "1", "-"}

Tokens == {h \o t : h \in TokenHeads, t \in TokenTails}

\* pypeg2 parses the token with Identifier: a match builds Identifier(name),
\* no match is a SyntaxError that get_ast turns into ParseError
Identifier_parse ==
    /\ pc = "token"
    /\ LET Parsed(m) ==
               IF m = PyNone
               THEN /\ pc' = "raised"
                    /\ exc' = ParseError("expecting match on Identifier").exc
                    /\ UNCHANGED node
               ELSE /\ pc' = "parsed"
                    /\ node' = Identifier(m.s)
                    /\ UNCHANGED exc
       IN  Parsed(Identifier_grammar_match(made))
    /\ UNCHANGED <<objs, scope_stores, doc, made, heap>>

InitTokens ==
    /\ pc = "token"
    /\ exc = NoExc
    /\ objs = <<>>
    /\ scope_stores = <<>>
    /\ doc = PyNone
    /\ made \in Tokens
    /\ node = PyNone
    /\ heap = <<>>

NextTokens == Identifier_parse

SpecTokens == InitTokens /\ [][NextTokens]_vars

\* the token has the shape [A-Za-z_][A-Za-z_0-9]*
IsIdentifierShape(s) == s # "" /\ IsIdStart(SubSeq(s, 1, 1)) /\ IdCharsLen(s) = Len(s)

\* the whole token was taken as one identifier
AcceptedAsIdentifier == pc = "parsed" /\ node.value = PyStr(made)

\* C24: a token is accepted as an identifier exactly when it matches
\* [A-Za-z_][A-Za-z_0-9]* and is not exactly one of the reserved words; a token
\* that only begins with a reserved word (string_len, structure) is accepted.
C24_IdentifierIffNotReserved ==
    pc # "token" =>
        (AcceptedAsIdentifier <=> (IsIdentifierShape(made) /\ made \notin ReservedWords))

(* Properties of the order of binding and visiting (SpecScopes). *)
\* the visitor leaves the body of a struct: its frame is popped
LeavesBody == Len(scope_stores') = Len(scope_stores) - 1

\* C25: the name of a named struct is bound in the frame of the enclosing scope
\* before the body is visited in its own frame (bind, push, visit body, pop): the
\* step that leaves the body pops the frame and binds nothing, the name being
\* bound already.
C25_BoundBeforeBody ==
    [][LeavesBody => scope_stores' = _pop_scope_store(scope_stores)]_vars

(* Properties of the two stacks (SpecTypes). *)
\* the classes whose blocks are visited by _visit_scope
ScopeClasses == {"Doc", "Trace", "Env", "Clock", "Stream", "Event", "Struct", "Variant"}

\* the number of scopes being visited: the scope objects on the object stack
OpenScopes == Cardinality({i \in DOMAIN objs : objs[i].cls \in ScopeClasses})

\* C26: the stack of frames is balanced: it holds one frame per scope being
\* visited (the top level alone once visit_Top has reset the state and entered),
\* and it is empty when the parse has returned.
C26_FramesBalanced ==
    /\ pc \in {"init", "top", "block"} => Len(scope_stores) = OpenScopes
    /\ pc = "top" => Len(scope_stores) = 1
    /\ pc = "done" => Len(scope_stores) = 0 /\ Len(objs) = 0

C26_Witness ==
    /\ pc = "done"
    /\ Len(doc.clocks) > 0
    /\ Len(doc.streams) > 0
    /\ scope_stores = <<>>

\* C27: every push is matched by exactly one pop on every exit path, the error
\* exits included: after a failed parse both stacks are empty.
C27_EmptyAfterFailure ==
    pc = "raised" => Len(scope_stores) = 0 /\ Len(objs) = 0

\* the text of a value in boolean form, as the source writes it
BooleanText(value) ==
    IF value.node = "ConstNumber" THEN ToString(value.value.n) ELSE value.elems[1].value.s

\* C28: the assignment of an integer's signed decodes the value only when its text
\* is, without regard to case, exactly true, false, 1 or 0; any other identifier or
\* number (truex, yes, 10) ends the parse with a ParseError.
C28_ExactBoolean ==
    [][ \A value \in AttrValues("Integer", "signed") :
            Assigns("Integer", "signed", value) =>
                IF Lower(BooleanText(value)) \in {"true", "false", "1", "0"}
                THEN pc' = "block"
                ELSE pc' = "raised" /\ exc'.type = "ParseError"
      ]_vars

(* Properties of the order of stream and event blocks (Spec). *)
\* C29: an event is attached only to a stream that is registered when the event
\* block ends: the end of an event block that succeeds appends the event to a
\* stream registered before it and registers nothing; the end of a stream block
\* that succeeds registers the stream without events and leaves the registered
\* streams and their events as they are, so a stream never receives the events of
\* earlier blocks; and a parse that has raised for a missing stream stays failed.
C29_AttachOnlyToRegistered ==
    [][ /\ (Closes("Event") /\ pc' = "top") =>
              /\ Len(objs'[1].streams) = Len(objs[1].streams)
              /\ \E i \in DOMAIN objs[1].streams :
                   /\ objs[1].streams[i].v.id = EventSid(_get_cur_obj)
                   /\ objs'[1].streams[i].v.events =
                          Append(objs[1].streams[i].v.events, _get_cur_obj)
        /\ (Closes("Stream") /\ pc' = "top") =>
              /\ Len(objs'[1].streams) = Len(objs[1].streams) + 1
              /\ objs'[1].streams[Len(objs'[1].streams)].v.events = <<>>
              /\ \A i \in DOMAIN objs[1].streams : objs'[1].streams[i] = objs[1].streams[i]
        /\ pc = "raised" => pc' = "raised"
      ]_vars

\* an event was attached to the stream registered before it, and a stream
\* registered after the event block holds no event
C29_Witness ==
    /\ pc = "top"
    /\ \E i, j \in DOMAIN objs[1].streams :
         /\ i < j
         /\ objs[1].streams[i].v.events # <<>>
         /\ objs[1].streams[j].v.events = <<>>
====
